---- MODULE Spec2Model ----
(***************************************************************************)
(* sqlit: the hierarchical UI state machine (state_machine.py) that        *)
(* authorizes actions and computes footer bindings, read against the       *)
(* application snapshot that the SSMSTUI handlers (app.py, ui/mixins)      *)
(* mutate.                                                                 *)
(*                                                                         *)
(* Two specifications share the variables:                                 *)
(*   Spec       the application: the hierarchy built by                    *)
(*              UIStateMachine.__init__, the snapshot moved by handlers;   *)
(*   SpecState  the State base class alone: a three-level chain of plain   *)
(*              states whose rule tables are built by allows()/forbids()   *)
(*              calls, then queried with check_action.                     *)
(***************************************************************************)
EXTENDS Integers, Sequences, FiniteSets, TLC

\* ------------------------------------------------------------------------
\* Bounds
\* ------------------------------------------------------------------------

\* number of leader Timer objects alive at one time
MaxTimers == 2

\* number of allows()/forbids() calls made on the chain of SpecState
MaxRegs == 3

\* ------------------------------------------------------------------------
\* Values
\* ------------------------------------------------------------------------

\* Python None
NoneV == "None"

\* ActionResult (state_machine.py:99-104)
ALLOWED == "ALLOWED"
FORBIDDEN == "FORBIDDEN"
UNHANDLED == "UNHANDLED"

\* the call does not return: an exception leaves check_action
RAISED == "RAISED"

\* VimMode (widgets.VimMode, used at state_machine.py:681,720)
NORMAL == "NORMAL"
INSERT == "INSERT"

\* connection names configured in the explorer
ConnNames == {"Prod", "Dev"}

\* kinds of tree node the cursor can be on
NodeKinds == {"none", "connection", "table", "folder"}

\* the three focusable panes; "none" when none of them has focus
Panes == {"tree", "query", "results"}

VARIABLES
    screen_stack,        \* app.screen_stack[1:], names of the pushed screens
    focus,               \* which of object_tree/query_input/results_table has_focus
    cursor_node,         \* object_tree.cursor_node: [kind, name]
    vim_mode,            \* app.vim_mode
    read_only,           \* query_input.read_only
    focus_event,         \* a DescendantFocus message is queued
    leader_pending,      \* app._leader_pending
    leader_timer,        \* app._leader_timer: an index into timers, 0 for None
    menu_items,          \* the commands the open LeaderMenuScreen lists
    leader_timer_id,     \* which Timer object _leader_timer is while it is
                         \* scheduled: set_timer returns a new object on
                         \* every call, and the one that replaces a scheduled
                         \* timer is told from it; 0 otherwise
    timers,              \* the Timer objects set_timer returned that are still
                         \* scheduled or referenced: "live", "fired", and
                         \* after stop() "stopped" (by action_leader_key) or
                         \* "cancelled" (by _cancel_leader_pending)
    current_connection,  \* app.current_connection: NoneV or the server's name
    current_config,      \* app.current_config: NoneV or the config's name
    query_executing,     \* app._query_executing
    query_worker,        \* app._query_worker: NoneV, a finished worker ("done")
                         \* or a running one ("running", "running_keep" when
                         \* started with keep_insert_mode)
    last_result_error,   \* app._last_result_columns == ["Error"]
    keymap,              \* leader command definitions of the current keymap
    driver_setup,        \* on_mount scheduled _show_driver_setup, not yet run
    exited,              \* app.exit() was called
    reg,                 \* SpecState: the rule tables of the chain
    nregs,               \* SpecState: allows()/forbids() calls made so far
    late_callbacks,      \* the event loop may still run the callback of a
                         \* timer after stop() was called on it
    has_footer,          \* query_one(ContextFooter) finds the footer widget
    workers,             \* SpecWorker: the Worker objects run_worker returned
                         \* for _run_query_async, in the order of creation:
                         \* where the coroutine is ("pending" before its
                         \* first step, "awaiting" at asyncio.to_thread,
                         \* "finished"), keep_insert_mode, and whether
                         \* Worker.cancel() was called and the task has yet
                         \* to be resumed with CancelledError
    query_worker_no,     \* SpecWorker: which of workers app._query_worker
                         \* is, 0 for None
    cancellable_query,   \* SpecWorker: the worker whose CancellableQuery
                         \* app._cancellable_query is, 0 for None
    displayed,           \* SpecWorker: the workers whose rows, affected-row
                         \* count or error _display_* wrote to the table
    saved,               \* SpecWorker: the workers whose query was saved
                         \* by _save_to_history
    user_cancelled,      \* SpecWorker: the workers whose query a cancel
                         \* action of the user cancelled
    current_adapter,     \* SpecConn: app.current_adapter, NoneV or the
                         \* adapter of the named config
    current_ssh_tunnel,  \* SpecConn: app.current_ssh_tunnel, NoneV or a tunnel
    tunnels_running,     \* SpecConn: the tunnels create_ssh_tunnel started
                         \* that were not stopped
    connections,         \* SpecConn: the names of the configs in
                         \* app.connections
    delete_config,       \* SpecConn: the config bound in the callback of
                         \* the open confirmation dialog
    last_notified,       \* SpecConn: the message notify() was last called
                         \* with (the last of app._notification_history)
    footer               \* what the footer was last set from: the active
                         \* state and the flags its get_display_bindings read

\* what the handlers other than the leader dispatcher write
appVars == << screen_stack, focus, cursor_node, vim_mode, read_only,
              focus_event, current_connection, current_config,
              query_executing, query_worker, last_result_error,
              keymap, driver_setup, exited >>

\* the leader dispatcher's fields
leaderVars == << leader_pending, leader_timer, leader_timer_id, timers,
                menu_items >>

\* the tables of SpecState
regVars == << reg, nregs >>

\* the query workers of SpecWorker
workerVars == << workers, query_worker_no, cancellable_query, displayed, saved,
                 user_cancelled >>

\* what the run is started with and no handler of the screens writes
\* the connection fields of SpecConn
connVars == << current_adapter, current_ssh_tunnel, tunnels_running,
               connections, delete_config, last_notified >>

envVars == << late_callbacks, has_footer, workerVars, connVars >>

vars == << appVars, leaderVars, regVars, envVars, footer >>

\* no query worker was started
NoWorkers ==
    /\ workers = << >>
    /\ query_worker_no = 0
    /\ cancellable_query = 0
    /\ displayed = {}
    /\ saved = {}
    /\ user_cancelled = {}

\* the connection fields of SpecConn before any connect
NoConn ==
    /\ current_adapter = NoneV
    /\ current_ssh_tunnel = NoneV
    /\ tunnels_running = 0
    /\ connections = ConnNames
    /\ delete_config = NoneV
    /\ last_notified = NoneV

\* ------------------------------------------------------------------------
\* Guards
\* ------------------------------------------------------------------------

\* TreeOnConnectionState._setup_actions.can_connect
can_connect ==
    IF cursor_node.kind # "connection" THEN FALSE
    ELSE IF current_connection = NoneV THEN TRUE
    ELSE current_config # NoneV /\ cursor_node.name # current_config

\* TreeOnConnectionState._setup_actions.is_connected_to_this
is_connected_to_this ==
    IF cursor_node.kind # "connection" THEN FALSE
    ELSE /\ current_connection # NoneV
         /\ current_config # NoneV
         /\ cursor_node.name = current_config

\* LEADER_GUARDS: the registry of named guards for leader commands
LEADER_GUARDS == {"has_connection", "query_executing"}

\* LEADER_GUARDS.get(name) if name else None
LeaderGuardGet(name) ==
    IF name # NoneV /\ name \in LEADER_GUARDS THEN name ELSE NoneV

\* calling a guard on the application: guard(app)
GuardEval(g) ==
    CASE g = "can_connect" -> can_connect
      [] g = "is_connected_to_this" -> is_connected_to_this
      [] g = "has_connection" -> current_connection # NoneV
      [] g = "query_executing" -> query_executing
      [] OTHER -> FALSE

\* a guard callable whose body raises an exception when it is called
RaisingGuards == { "raising_guard" }

\* the call guard(app) raises
GuardRaises(g) == g \in RaisingGuards

\* ActionSpec.is_allowed / LeaderCommand.is_allowed
is_allowed(guard) == IF guard = NoneV THEN TRUE ELSE GuardEval(guard)

\* ------------------------------------------------------------------------
\* State: construction
\* ------------------------------------------------------------------------

\* State.__init__: empty tables
NewState(cls, parent, help_category) ==
    [ cls |-> cls,
      parent |-> parent,
      help_category |-> help_category,
      actions |-> << >>,
      action_order |-> << >>,
      forbidden |-> {},
      display_order |-> << >>,
      right_bindings |-> << >> ]

\* State.allows(action_name, guard, key=, label=, right=, help=, help_key=)
allows(st, action_name, guard, key, label, right, help, help_key) ==
    [st EXCEPT
        !.actions = (action_name :>
                        [ guard |-> guard,
                          display_key |-> key,
                          display_label |-> label,
                          help_key |-> IF help_key # NoneV THEN help_key ELSE key,
                          help_description |-> help ]) @@ @,
        !.action_order =
            IF \E i \in DOMAIN @ : @[i] = action_name
            THEN @ ELSE Append(@, action_name),
        !.right_bindings =
            IF key # NoneV /\ label # NoneV /\ right
            THEN Append(@, action_name) ELSE @,
        !.display_order =
            IF key # NoneV /\ label # NoneV /\ ~right
            THEN Append(@, action_name) ELSE @]

\* State.forbids(*action_names)
forbids(st, action_names) ==
    [st EXCEPT !.forbidden = @ \cup action_names]

\* ------------------------------------------------------------------------
\* The hierarchy of UIStateMachine.__init__
\* ------------------------------------------------------------------------

\* RootState._setup_actions, built with parent=None
RootState ==
    LET s0 == NewState("RootState", NoneV, "General")
        s1 == allows(s0, "quit", NoneV, NoneV, NoneV, FALSE, "Quit", "^q")
        s2 == allows(s1, "show_help", NoneV, NoneV, NoneV, FALSE, "Show this help", "?")
        s3 == allows(s2, "leader_key", NoneV, NoneV, NoneV, FALSE, "Commands menu", "<space>")
    IN  s3

\* ModalActiveState._setup_actions (no rules), parent=root
ModalActiveState ==
    NewState("ModalActiveState", "root", NoneV)

\* MainScreenState._setup_actions that also registers a leader binding action
MainScreenState_allows_leader_quit ==
    LET s0 == NewState("MainScreenState", "root", "Navigation")
        s1 == allows(s0, "focus_explorer", NoneV, NoneV, NoneV, FALSE, "Focus Explorer", "e")
        s2 == allows(s1, "focus_query", NoneV, NoneV, NoneV, FALSE, "Focus Query", "q")
        s3 == allows(s2, "focus_results", NoneV, NoneV, NoneV, FALSE, "Focus Results", "r")
        s4 == allows(s3, "toggle_fullscreen", NoneV, NoneV, NoneV, FALSE, "Toggle fullscreen", "f")
        s5 == allows(s4, "show_help", NoneV, NoneV, NoneV, FALSE, NoneV, NoneV)
        s6 == allows(s5, "change_theme", NoneV, NoneV, NoneV, FALSE, NoneV, NoneV)
        s7 == allows(s6, "cancel_operation", NoneV, NoneV, NoneV, FALSE, NoneV, NoneV)
        s8 == allows(s7, "leader_key", NoneV, "<space>", "Commands", TRUE, NoneV, NoneV)
        s9 == allows(s8, "leader_quit", NoneV, NoneV, NoneV, FALSE, NoneV, NoneV)
    IN  s9

\* MainScreenState._setup_actions, parent=root
MainScreenState ==
    LET s0 == NewState("MainScreenState", "root", "Navigation")
        s1 == allows(s0, "focus_explorer", NoneV, NoneV, NoneV, FALSE, "Focus Explorer", "e")
        s2 == allows(s1, "focus_query", NoneV, NoneV, NoneV, FALSE, "Focus Query", "q")
        s3 == allows(s2, "focus_results", NoneV, NoneV, NoneV, FALSE, "Focus Results", "r")
        s4 == allows(s3, "toggle_fullscreen", NoneV, NoneV, NoneV, FALSE, "Toggle fullscreen", "f")
        s5 == allows(s4, "show_help", NoneV, NoneV, NoneV, FALSE, NoneV, NoneV)
        s6 == allows(s5, "change_theme", NoneV, NoneV, NoneV, FALSE, NoneV, NoneV)
        s7 == allows(s6, "cancel_operation", NoneV, NoneV, NoneV, FALSE, NoneV, NoneV)
        s8 == allows(s7, "leader_key", NoneV, "<space>", "Commands", TRUE, NoneV, NoneV)
    IN  s8

\* LeaderPendingState._setup_actions (no rules), parent=main_screen
LeaderPendingState ==
    NewState("LeaderPendingState", "main_screen", NoneV)

\* TreeFocusedState._setup_actions that also registers vim_left and vim_right
TreeFocusedState_allows_left_right ==
    LET s0 == NewState("TreeFocusedState", "main_screen", "Explorer")
        s1 == allows(s0, "new_connection", NoneV, "n", "New", FALSE, "New connection", NoneV)
        s2 == allows(s1, "refresh_tree", NoneV, "f", "Refresh", FALSE, "Refresh tree", "R/f")
        s3 == allows(s2, "collapse_tree", NoneV, NoneV, NoneV, FALSE, "Collapse all", "z")
        s4 == allows(s3, "vim_down", NoneV, NoneV, NoneV, FALSE, "Move down", "j")
        s5 == allows(s4, "vim_up", NoneV, NoneV, NoneV, FALSE, "Move up", "k")
        s6 == allows(s5, "vim_left", NoneV, NoneV, NoneV, FALSE, "Move left", "h")
        s7 == allows(s6, "vim_right", NoneV, NoneV, NoneV, FALSE, "Move right", "l")
    IN  s7

\* TreeFocusedState._setup_actions, parent=main_screen
TreeFocusedState ==
    LET s0 == NewState("TreeFocusedState", "main_screen", "Explorer")
        s1 == allows(s0, "new_connection", NoneV, "n", "New", FALSE, "New connection", NoneV)
        s2 == allows(s1, "refresh_tree", NoneV, "f", "Refresh", FALSE, "Refresh tree", "R/f")
        s3 == allows(s2, "collapse_tree", NoneV, NoneV, NoneV, FALSE, "Collapse all", "z")
        s4 == allows(s3, "vim_down", NoneV, NoneV, NoneV, FALSE, "Move down", "j")
        s5 == allows(s4, "vim_up", NoneV, NoneV, NoneV, FALSE, "Move up", "k")
    IN  s5

\* TreeOnConnectionState._setup_actions, parent=tree_focused
TreeOnConnectionState ==
    LET s0 == NewState("TreeOnConnectionState", "tree_focused", "Explorer")
        s1 == allows(s0, "connect_selected", "can_connect", "enter", "Connect", FALSE, "Connect/Expand/Columns", NoneV)
        s2 == allows(s1, "disconnect", "is_connected_to_this", "x", "Disconnect", FALSE, "Disconnect", NoneV)
        s3 == allows(s2, "edit_connection", NoneV, "e", "Edit", FALSE, "Edit connection", NoneV)
        s4 == allows(s3, "delete_connection", NoneV, "d", "Delete", FALSE, "Delete connection", NoneV)
        s5 == allows(s4, "duplicate_connection", NoneV, "D", "Duplicate", FALSE, "Duplicate connection", NoneV)
    IN  s5

\* TreeOnTableState._setup_actions, parent=tree_focused
TreeOnTableState ==
    LET s0 == NewState("TreeOnTableState", "tree_focused", "Explorer")
        s1 == allows(s0, "select_table", NoneV, "s", "Select TOP 100", FALSE, "Select TOP 100 (table/view)", NoneV)
    IN  s1

\* TreeOnFolderState._setup_actions (no rules), parent=tree_focused
TreeOnFolderState ==
    NewState("TreeOnFolderState", "tree_focused", NoneV)

\* QueryFocusedState._setup_actions (no rules), parent=main_screen
QueryFocusedState ==
    NewState("QueryFocusedState", "main_screen", NoneV)

\* QueryNormalModeState._setup_actions, parent=query_focused
QueryNormalModeState ==
    LET s0 == NewState("QueryNormalModeState", "query_focused", "Query Editor (Normal)")
        s1 == allows(s0, "enter_insert_mode", NoneV, "i", "Insert Mode", FALSE, "Enter INSERT mode", NoneV)
        s2 == allows(s1, "execute_query", NoneV, "enter", "Execute", FALSE, "Execute query", NoneV)
        s3 == allows(s2, "clear_query", NoneV, "d", "Clear", FALSE, "Clear query", NoneV)
        s4 == allows(s3, "new_query", NoneV, "n", "New", FALSE, "New query (clear all)", NoneV)
        s5 == allows(s4, "vim_down", NoneV, NoneV, NoneV, FALSE, "Move down", "j")
        s6 == allows(s5, "vim_up", NoneV, NoneV, NoneV, FALSE, "Move up", "k")
        s7 == allows(s6, "vim_left", NoneV, NoneV, NoneV, FALSE, "Move left", "h")
        s8 == allows(s7, "vim_right", NoneV, NoneV, NoneV, FALSE, "Move right", "l")
    IN  s8

\* QueryInsertModeState._setup_actions, parent=query_focused
QueryInsertModeState ==
    LET s0 == NewState("QueryInsertModeState", "query_focused", "Query Editor (Insert)")
        s1 == allows(s0, "exit_insert_mode", NoneV, "esc", "Normal Mode", FALSE, "Exit to NORMAL mode", NoneV)
        s2 == allows(s1, "execute_query_insert", NoneV, "f5", "Execute", FALSE, "Execute query (stay INSERT)", NoneV)
        s3 == allows(s2, "autocomplete_accept", NoneV, NoneV, NoneV, FALSE, "Accept autocomplete", "tab")
        s4 == allows(s3, "quit", NoneV, NoneV, NoneV, FALSE, NoneV, NoneV)
    IN  forbids(s4, {"focus_explorer", "focus_results", "leader_key", "new_connection", "show_help", "vim_down", "vim_up", "vim_left", "vim_right"})

\* ResultsFocusedState._setup_actions, parent=main_screen
ResultsFocusedState ==
    LET s0 == NewState("ResultsFocusedState", "main_screen", "Results")
        s1 == allows(s0, "view_cell", NoneV, "v", "View cell", FALSE, "View selected cell", NoneV)
        s2 == allows(s1, "copy_cell", NoneV, "y", "Copy cell", FALSE, "Copy selected cell", NoneV)
        s3 == allows(s2, "copy_row", NoneV, "Y", "Copy row", FALSE, "Copy selected row", NoneV)
        s4 == allows(s3, "copy_results", NoneV, "a", "Copy all", FALSE, "Copy all results", NoneV)
        s5 == allows(s4, "vim_down", NoneV, NoneV, NoneV, FALSE, "Move down", "j")
        s6 == allows(s5, "vim_up", NoneV, NoneV, NoneV, FALSE, "Move up", "k")
        s7 == allows(s6, "vim_left", NoneV, NoneV, NoneV, FALSE, "Move left", "h")
        s8 == allows(s7, "vim_right", NoneV, NoneV, NoneV, FALSE, "Move right", "l")
    IN  s8

\* UIStateMachine.__init__: the state objects, by attribute name
Machine ==
    [ root |-> RootState,
      modal_active |-> ModalActiveState,
      main_screen |-> MainScreenState,
      leader_pending |-> LeaderPendingState,
      tree_focused |-> TreeFocusedState,
      tree_on_connection |-> TreeOnConnectionState,
      tree_on_table |-> TreeOnTableState,
      tree_on_folder |-> TreeOnFolderState,
      query_focused |-> QueryFocusedState,
      query_normal |-> QueryNormalModeState,
      query_insert |-> QueryInsertModeState,
      results_focused |-> ResultsFocusedState ]

\* _states with LeaderPendingState listed ahead of ModalActiveState
States_leader_before_modal ==
    << "leader_pending", "modal_active",
       "tree_on_connection", "tree_on_table", "tree_on_folder", "tree_focused",
       "query_insert", "query_normal", "query_focused",
       "results_focused",
       "main_screen", "root" >>

\* UIStateMachine._states: the priority order, most specific first
States ==
    << "modal_active", "leader_pending",
       "tree_on_connection", "tree_on_table", "tree_on_folder", "tree_focused",
       "query_insert", "query_normal", "query_focused",
       "results_focused",
       "main_screen", "root" >>

StateIds == { States[i] : i \in 1..Len(States) }

\* ------------------------------------------------------------------------
\* Leader command registry
\* ------------------------------------------------------------------------

\* LeaderCommand.binding_action: f"leader_{self.action}"
binding_action(cmd) == "leader_" \o cmd.action

\* _build_leader_commands / get_leader_commands: rebuilt from the keymap's
\* definitions, the guard name resolved through LEADER_GUARDS
get_leader_commands(km) ==
    [ i \in 1..Len(km) |->
        [ key |-> km[i].key,
          action |-> km[i].action,
          label |-> km[i].label,
          category |-> km[i].category,
          guard |-> LeaderGuardGet(km[i].guard) ] ]

\* get_leader_binding_actions
get_leader_binding_actions(km) ==
    { binding_action(get_leader_commands(km)[i]) : i \in 1..Len(km) }

\* ------------------------------------------------------------------------
\* Help text
\* ------------------------------------------------------------------------

\* HelpEntry(key, description, category)
HelpEntry(key, description, category) ==
    [ key |-> key, description |-> description, category |-> category ]

\* the test of ActionSpec.get_help_entry: help key and text are both set
HasHelp(spec) == spec.help_key # NoneV /\ spec.help_description # NoneV

\* ActionSpec.get_help_entry: NoneV when the help key or text is missing
get_help_entry(spec, category) ==
    IF HasHelp(spec)
    THEN HelpEntry(spec.help_key, spec.help_description, category)
    ELSE NoneV

\* State.get_help_entries: the entries of the rules in the order of the
\* _actions dict, nothing for a state without help_category
get_help_entries(st) ==
    IF st.help_category = NoneV THEN << >>
    ELSE LET with_help ==
                SelectSeq(st.action_order, LAMBDA a : HasHelp(st.actions[a]))
         IN  [ i \in 1..Len(with_help) |->
                  get_help_entry(st.actions[with_help[i]], st.help_category) ]

RECURSIVE AllHelpEntries(_, _, _)
\* the entries in the order the two loops of generate_help_text visit them:
\* state by state from position i of the list order
AllHelpEntries(T, order, i) ==
    IF i > Len(order) THEN << >>
    ELSE get_help_entries(T[order[i]]) \o AllHelpEntries(T, order, i + 1)

\* the keys of the entries of a list
KeysOf(entries) == { entries[i].key : i \in 1..Len(entries) }

RECURSIVE CollectHelp_keeps_duplicates(_, _, _)
\* a collection that appends every entry, whatever keys the category has
CollectHelp_keeps_duplicates(entries, i, by_category) ==
    IF i > Len(entries) THEN by_category
    ELSE LET entry == entries[i]
             with_cat == IF entry.category \in DOMAIN by_category
                         THEN by_category
                         ELSE (entry.category :> << >>) @@ by_category
         IN  CollectHelp_keeps_duplicates(entries, i + 1,
                [with_cat EXCEPT ![entry.category] = Append(@, entry)])

RECURSIVE CollectHelp(_, _, _)
\* the body of the loops of generate_help_text: entries_by_category after the
\* entries from position i on
CollectHelp(entries, i, by_category) ==
    IF i > Len(entries) THEN by_category
    ELSE LET entry == entries[i]
             with_cat == IF entry.category \in DOMAIN by_category
                         THEN by_category
                         ELSE (entry.category :> << >>) @@ by_category
         IN  IF entry.key \notin KeysOf(with_cat[entry.category])
             THEN CollectHelp(entries, i + 1,
                     [with_cat EXCEPT ![entry.category] = Append(@, entry)])
             ELSE CollectHelp(entries, i + 1, with_cat)

\* the category of the leader commands
CommandsCategory == "Commands (<space>)"

\* category_order of generate_help_text
category_order ==
    << "Explorer", "Query Editor (Normal)", "Query Editor (Insert)",
       "Results", "Navigation", CommandsCategory, "General" >>

\* special_keys of _format_key_for_help
special_keys ==
    { "enter", "space", "esc", "escape", "tab", "delete", "backspace",
      "up", "down", "left", "right", "home", "end", "pageup", "pagedown",
      "f1", "f2", "f3", "f4", "f5", "f6", "f7", "f8", "f9", "f10", "f11", "f12" }

\* key.lower() on the keys of the rules and commands
lower(key) ==
    CASE key = "D" -> "d"
      [] key = "Y" -> "y"
      [] key = "R/f" -> "r/f"
      [] OTHER -> key

\* UIStateMachine._format_key_for_help
format_key_for_help(key) ==
    IF lower(key) \in special_keys THEN "<" \o key \o ">" ELSE key

\* the lines of one category: its title, one line per entry, an empty line
CategoryLines(category, entries) ==
    << [ kind |-> "title", key |-> NoneV, text |-> category ] >>
    \o [ i \in 1..Len(entries) |->
            [ kind |-> "entry",
              key |-> format_key_for_help(entries[i].key),
              text |-> entries[i].description ] ]
    \o << [ kind |-> "empty", key |-> NoneV, text |-> "" ] >>

RECURSIVE HelpLines(_, _)
\* the loop over category_order of generate_help_text from position i
HelpLines(by_category, i) ==
    IF i > Len(category_order) THEN << >>
    ELSE LET category == category_order[i]
         IN  IF category \notin DOMAIN by_category
             THEN HelpLines(by_category, i + 1)
             ELSE IF by_category[category] = << >>
             THEN HelpLines(by_category, i + 1)
             ELSE CategoryLines(category, by_category[category])
                  \o HelpLines(by_category, i + 1)

\* "\n".join(lines).rstrip(): the trailing empty line is dropped
rstrip(lines) ==
    IF lines # << >> /\ lines[Len(lines)].kind = "empty"
    THEN SubSeq(lines, 1, Len(lines) - 1)
    ELSE lines

\* UIStateMachine.generate_help_text over the states T in the list order,
\* with the leader commands of the keymap km; the text as its list of lines
generate_help_text(T, order, km) ==
    LET collected == CollectHelp(AllHelpEntries(T, order, 1), 1, << >>)
        cmds == get_leader_commands(km)
        commands == [ i \in 1..Len(cmds) |->
                        HelpEntry(cmds[i].key, cmds[i].label, CommandsCategory) ]
        entries_by_category ==
            (CommandsCategory :> commands) @@ collected
    IN  rstrip(HelpLines(entries_by_category, 1))

\* ------------------------------------------------------------------------
\* is_active of each state class
\* ------------------------------------------------------------------------

\* the screens the application pushes; all of them are ModalScreen subclasses
ModalScreens ==
    { "LeaderMenuScreen", "HelpScreen", "ThemeScreen", "DriverSetupScreen",
      "QueryHistoryScreen", "ConfirmScreen" }

\* any(isinstance(screen, ModalScreen) for screen in app.screen_stack[1:])
AnyModal == \E i \in 1..Len(screen_stack) : screen_stack[i] \in ModalScreens

\* is_active where RootState.is_active returns False
is_active_root_inactive(cls) ==
    CASE cls = "ModalActiveState" -> AnyModal
      [] cls = "MainScreenState" -> ~AnyModal
      [] cls = "LeaderPendingState" -> leader_pending
      [] cls = "TreeFocusedState" -> focus = "tree"
      [] cls = "TreeOnConnectionState" ->
            focus = "tree" /\ cursor_node.kind = "connection"
      [] cls = "TreeOnTableState" -> focus = "tree" /\ cursor_node.kind = "table"
      [] cls = "TreeOnFolderState" -> focus = "tree" /\ cursor_node.kind = "folder"
      [] cls = "QueryFocusedState" -> focus = "query"
      [] cls = "QueryNormalModeState" -> focus = "query" /\ vim_mode = NORMAL
      [] cls = "QueryInsertModeState" -> focus = "query" /\ vim_mode = INSERT
      [] cls = "ResultsFocusedState" -> focus = "results"
      [] OTHER -> FALSE

\* is_active with a MainScreenState that is active under a modal screen too
is_active_main_screen_always(cls) ==
    CASE cls = "RootState" -> TRUE
      [] cls = "ModalActiveState" -> AnyModal
      [] cls = "MainScreenState" -> TRUE
      [] cls = "LeaderPendingState" -> leader_pending
      [] cls = "TreeFocusedState" -> focus = "tree"
      [] cls = "TreeOnConnectionState" ->
            IF focus # "tree" THEN FALSE
            ELSE cursor_node.kind # "none" /\ cursor_node.kind = "connection"
      [] cls = "TreeOnTableState" ->
            IF focus # "tree" THEN FALSE
            ELSE cursor_node.kind # "none" /\ cursor_node.kind = "table"
      [] cls = "TreeOnFolderState" ->
            IF focus # "tree" THEN FALSE
            ELSE cursor_node.kind # "none" /\ cursor_node.kind = "folder"
      [] cls = "QueryFocusedState" -> focus = "query"
      [] cls = "QueryNormalModeState" -> focus = "query" /\ vim_mode = NORMAL
      [] cls = "QueryInsertModeState" -> focus = "query" /\ vim_mode = INSERT
      [] cls = "ResultsFocusedState" -> focus = "results"
      [] OTHER -> FALSE

\* <Class>.is_active(app), by class name
is_active(cls) ==
    CASE cls = "RootState" -> TRUE
      [] cls = "ModalActiveState" -> AnyModal
      [] cls = "MainScreenState" -> ~AnyModal
      [] cls = "LeaderPendingState" -> leader_pending
      [] cls = "TreeFocusedState" -> focus = "tree"
      [] cls = "TreeOnConnectionState" ->
            IF focus # "tree" THEN FALSE
            ELSE cursor_node.kind # "none" /\ cursor_node.kind = "connection"
      [] cls = "TreeOnTableState" ->
            IF focus # "tree" THEN FALSE
            ELSE cursor_node.kind # "none" /\ cursor_node.kind = "table"
      [] cls = "TreeOnFolderState" ->
            IF focus # "tree" THEN FALSE
            ELSE cursor_node.kind # "none" /\ cursor_node.kind = "folder"
      [] cls = "QueryFocusedState" -> focus = "query"
      [] cls = "QueryNormalModeState" -> focus = "query" /\ vim_mode = NORMAL
      [] cls = "QueryInsertModeState" -> focus = "query" /\ vim_mode = INSERT
      [] cls = "ResultsFocusedState" -> focus = "results"
      [] OTHER -> FALSE

\* ------------------------------------------------------------------------
\* check_action
\* ------------------------------------------------------------------------

RECURSIVE check_action(_, _, _)
RECURSIVE State_check_action(_, _, _)

\* State.check_action with the rule looked up before the forbidden set
State_check_action_rule_first(T, s, action_name) ==
    LET st == T[s]
    IN  IF action_name \in DOMAIN st.actions
        THEN IF is_allowed(st.actions[action_name].guard)
             THEN ALLOWED
             ELSE FORBIDDEN
        ELSE IF action_name \in st.forbidden THEN FORBIDDEN
        ELSE IF st.parent # NoneV
        THEN check_action(T, st.parent, action_name)
        ELSE UNHANDLED

\* State.check_action without the delegation to the parent
State_check_action_no_parent(T, s, action_name) ==
    LET st == T[s]
    IN  IF action_name \in st.forbidden THEN FORBIDDEN
        ELSE IF action_name \in DOMAIN st.actions
        THEN IF is_allowed(st.actions[action_name].guard)
             THEN ALLOWED
             ELSE FORBIDDEN
        ELSE UNHANDLED

\* State.check_action where a failing guard falls through to the parent
State_check_action_guard_falls_through(T, s, action_name) ==
    LET st == T[s]
    IN  IF action_name \in st.forbidden THEN FORBIDDEN
        ELSE IF /\ action_name \in DOMAIN st.actions
                /\ is_allowed(st.actions[action_name].guard)
        THEN ALLOWED
        ELSE IF st.parent # NoneV
        THEN check_action(T, st.parent, action_name)
        ELSE IF action_name \in DOMAIN st.actions THEN FORBIDDEN
        ELSE UNHANDLED

\* State.check_action of state s in the table T of states
State_check_action(T, s, action_name) ==
    LET st == T[s]
    IN  IF action_name \in st.forbidden THEN FORBIDDEN
        ELSE IF action_name \in DOMAIN st.actions
        THEN IF GuardRaises(st.actions[action_name].guard)
             THEN RAISED
             ELSE IF is_allowed(st.actions[action_name].guard)
             THEN ALLOWED
             ELSE FORBIDDEN
        ELSE IF st.parent # NoneV
        THEN check_action(T, st.parent, action_name)
        ELSE UNHANDLED

\* ModalActiveState.check_action that hands every other action to the parent
Modal_check_action_delegates(action_name) ==
    IF action_name \in {"quit"} THEN ALLOWED
    ELSE State_check_action(Machine, "modal_active", action_name)

\* ModalActiveState.check_action that lets no action through
Modal_check_action_blocks_quit(action_name) == FORBIDDEN

\* ModalActiveState.check_action
Modal_check_action(action_name) ==
    IF action_name \in {"quit"} THEN ALLOWED ELSE FORBIDDEN

\* LeaderPendingState.check_action that does not call cmd.is_allowed
Leader_check_action_ignores_guard(action_name) ==
    IF action_name \in get_leader_binding_actions(keymap) THEN ALLOWED
    ELSE IF action_name = "leader_key" THEN ALLOWED
    ELSE FORBIDDEN

\* LeaderPendingState.check_action that answers from the commands of the
\* keymap the application started with, whatever the keymap is now
Leader_check_action_cached(action_name) ==
    IF action_name \in { "leader_change_theme", "leader_show_help", "leader_quit" }
    THEN ALLOWED
    ELSE IF action_name = "leader_disconnect"
    THEN IF is_allowed("has_connection") THEN ALLOWED ELSE FORBIDDEN
    ELSE IF action_name = "leader_cancel_operation"
    THEN IF is_allowed("query_executing") THEN ALLOWED ELSE FORBIDDEN
    ELSE IF action_name = "leader_key" THEN ALLOWED
    ELSE FORBIDDEN

\* LeaderPendingState.check_action
Leader_check_action(action_name) ==
    LET leader_commands == get_leader_commands(keymap)
        matching == { i \in 1..Len(leader_commands) :
                        binding_action(leader_commands[i]) = action_name }
    IN  IF action_name \in get_leader_binding_actions(keymap)
        THEN LET cmd == leader_commands[CHOOSE i \in matching :
                                          \A j \in matching : i <= j]
             IN  IF is_allowed(cmd.guard) THEN ALLOWED ELSE FORBIDDEN
        ELSE IF action_name = "leader_key" THEN ALLOWED
        ELSE FORBIDDEN

\* s.check_action(app, action_name), dispatched on the class of s
check_action(T, s, action_name) ==
    CASE T[s].cls = "ModalActiveState" -> Modal_check_action(action_name)
      [] T[s].cls = "LeaderPendingState" -> Leader_check_action(action_name)
      [] OTHER -> State_check_action(T, s, action_name)

\* ------------------------------------------------------------------------
\* UIStateMachine
\* ------------------------------------------------------------------------

\* the positions of _states whose state is active
ActiveIndexes == { i \in 1..Len(States) : is_active(Machine[States[i]].cls) }

RECURSIVE FirstActive(_)
\* the loop of get_active_state from position i on: the position of the
\* first active state, 0 when the loop ends without one
FirstActive(i) ==
    IF i > Len(States) THEN 0
    ELSE IF is_active(Machine[States[i]].cls) THEN i
    ELSE FirstActive(i + 1)

\* the loop of get_active_state finds no active state and falls through
FallbackReached == FirstActive(1) = 0

\* get_active_state that keeps the last active state of the list
get_active_state_last_match ==
    IF ActiveIndexes # {}
    THEN States[CHOOSE i \in ActiveIndexes : \A j \in ActiveIndexes : j <= i]
    ELSE "root"

\* UIStateMachine.get_active_state
get_active_state ==
    LET i == FirstActive(1)
    IN  IF i # 0 THEN States[i] ELSE "root"

\* UIStateMachine.check_action that blocks FORBIDDEN only
UI_check_action_unhandled_passes(action_name) ==
    check_action(Machine, get_active_state, action_name) # FORBIDDEN

\* UIStateMachine.check_action
UI_check_action(action_name) ==
    check_action(Machine, get_active_state, action_name) = ALLOWED

\* ------------------------------------------------------------------------
\* get_display_bindings
\* ------------------------------------------------------------------------

\* DisplayBinding(key=, label=, action=)
DisplayBinding(key, label, action) ==
    [ key |-> key, label |-> label, action |-> action ]

\* the test of ActionSpec.get_display_binding: key and label are both set
HasDisplay(spec) == spec.display_key # NoneV /\ spec.display_label # NoneV

\* ActionSpec.get_display_binding: NoneV when key or label is missing
get_display_binding(spec, action_name) ==
    IF HasDisplay(spec)
    THEN DisplayBinding(spec.display_key, spec.display_label, action_name)
    ELSE NoneV

RECURSIVE CollectOwn_ignoring_guard(_, _, _, _)
\* own loops that emit a rule's binding whether or not its guard passes
CollectOwn_ignoring_guard(st, order, i, acc) ==
    IF i > Len(order) THEN acc
    ELSE LET action_name == order[i]
         IN  IF action_name \in acc.seen
             THEN CollectOwn_ignoring_guard(st, order, i + 1, acc)
             ELSE IF /\ action_name \in DOMAIN st.actions
                     /\ HasDisplay(st.actions[action_name])
             THEN CollectOwn_ignoring_guard(st, order, i + 1,
                     [ out |-> Append(acc.out,
                          get_display_binding(st.actions[action_name], action_name)),
                       seen |-> acc.seen \cup {action_name} ])
             ELSE CollectOwn_ignoring_guard(st, order, i + 1, acc)

RECURSIVE CollectOwn(_, _, _, _)
\* the loops over self._display_order / self._right_bindings of
\* State.get_display_bindings, from position i, acc = [out, seen]
CollectOwn(st, order, i, acc) ==
    IF i > Len(order) THEN acc
    ELSE LET action_name == order[i]
         IN  IF action_name \in acc.seen
             THEN CollectOwn(st, order, i + 1, acc)
             ELSE IF /\ action_name \in DOMAIN st.actions
                     /\ is_allowed(st.actions[action_name].guard)
                     /\ HasDisplay(st.actions[action_name])
             THEN CollectOwn(st, order, i + 1,
                     [ out |-> Append(acc.out,
                          get_display_binding(st.actions[action_name], action_name)),
                       seen |-> acc.seen \cup {action_name} ])
             ELSE CollectOwn(st, order, i + 1, acc)

RECURSIVE MergeParent_ignoring_seen(_, _, _)
\* a merge that appends every binding of the parent, seen or not
MergeParent_ignoring_seen(bindings, i, acc) ==
    IF i > Len(bindings) THEN acc
    ELSE MergeParent_ignoring_seen(bindings, i + 1,
            [ out |-> Append(acc.out, bindings[i]),
              seen |-> acc.seen \cup {bindings[i].action} ])

RECURSIVE MergeParent(_, _, _)
\* the loops over parent_left / parent_right: append what is not seen yet
MergeParent(bindings, i, acc) ==
    IF i > Len(bindings) THEN acc
    ELSE IF bindings[i].action \notin acc.seen
    THEN MergeParent(bindings, i + 1,
            [ out |-> Append(acc.out, bindings[i]),
              seen |-> acc.seen \cup {bindings[i].action} ])
    ELSE MergeParent(bindings, i + 1, acc)

RECURSIVE get_display_bindings(_, _)
RECURSIVE State_get_display_bindings(_, _)

\* State.get_display_bindings of state s in the table T
State_get_display_bindings(T, s) ==
    LET st == T[s]
        l == CollectOwn(st, st.display_order, 1, [out |-> << >>, seen |-> {}])
        r == CollectOwn(st, st.right_bindings, 1, [out |-> << >>, seen |-> l.seen])
    IN  IF st.parent # NoneV
        THEN LET p == get_display_bindings(T, st.parent)
                 ml == MergeParent(p.left, 1, [out |-> l.out, seen |-> r.seen])
                 mr == MergeParent(p.right, 1, [out |-> r.out, seen |-> ml.seen])
             IN  [ left |-> ml.out, right |-> mr.out ]
        ELSE [ left |-> l.out, right |-> r.out ]

\* the tail shared by the overriding classes: the parent's right bindings
\* that are not in seen
ParentRight(T, s, seen) ==
    IF T[s].parent # NoneV
    THEN MergeParent(get_display_bindings(T, T[s].parent).right, 1,
                     [out |-> << >>, seen |-> seen]).out
    ELSE << >>

\* ModalActiveState.get_display_bindings
Modal_get_display_bindings == [ left |-> << >>, right |-> << >> ]

\* LeaderPendingState.get_display_bindings
Leader_get_display_bindings ==
    [ left |-> << >>,
      right |-> << DisplayBinding("...", "Waiting", "leader_pending") >> ]

\* TreeOnConnectionState.get_display_bindings that shows Connect whether
\* or not the cursor's connection is the connected one
TreeOnConnection_get_display_bindings_always_connect(T, s) ==
    LET left == << DisplayBinding("enter", "Connect", "connect_selected"),
                   DisplayBinding("n", "New", "new_connection"),
                   DisplayBinding("e", "Edit", "edit_connection"),
                   DisplayBinding("D", "Duplicate", "duplicate_connection"),
                   DisplayBinding("d", "Delete", "delete_connection"),
                   DisplayBinding("f", "Refresh", "refresh_tree") >>
        seen == { "disconnect", "connect_selected", "new_connection",
                  "edit_connection", "duplicate_connection",
                  "delete_connection", "refresh_tree" }
    IN  [ left |-> left, right |-> ParentRight(T, s, seen) ]

\* TreeOnConnectionState.get_display_bindings that shows Disconnect after
\* Connect when the cursor's connection is the connected one
TreeOnConnection_get_display_bindings_shows_both(T, s) ==
    LET is_connected ==
            /\ current_connection # NoneV
            /\ cursor_node.kind = "connection"
            /\ current_config # NoneV
            /\ cursor_node.name = current_config
        first == IF is_connected
                 THEN << DisplayBinding("enter", "Connect", "connect_selected"),
                         DisplayBinding("x", "Disconnect", "disconnect") >>
                 ELSE << DisplayBinding("enter", "Connect", "connect_selected") >>
        left == first \o
                << DisplayBinding("n", "New", "new_connection"),
                   DisplayBinding("e", "Edit", "edit_connection"),
                   DisplayBinding("D", "Duplicate", "duplicate_connection"),
                   DisplayBinding("d", "Delete", "delete_connection"),
                   DisplayBinding("f", "Refresh", "refresh_tree") >>
        seen == { "disconnect", "connect_selected", "new_connection",
                  "edit_connection", "duplicate_connection",
                  "delete_connection", "refresh_tree" }
    IN  [ left |-> left, right |-> ParentRight(T, s, seen) ]

\* TreeOnConnectionState.get_display_bindings
TreeOnConnection_get_display_bindings(T, s) ==
    LET is_connected ==
            /\ current_connection # NoneV
            /\ cursor_node.kind = "connection"
            /\ current_config # NoneV
            /\ cursor_node.name = current_config
        first == IF is_connected
                 THEN DisplayBinding("x", "Disconnect", "disconnect")
                 ELSE DisplayBinding("enter", "Connect", "connect_selected")
        left == << first,
                   DisplayBinding("n", "New", "new_connection"),
                   DisplayBinding("e", "Edit", "edit_connection"),
                   DisplayBinding("D", "Duplicate", "duplicate_connection"),
                   DisplayBinding("d", "Delete", "delete_connection"),
                   DisplayBinding("f", "Refresh", "refresh_tree") >>
        seen == { "disconnect", "connect_selected", "new_connection",
                  "edit_connection", "duplicate_connection",
                  "delete_connection", "refresh_tree" }
    IN  [ left |-> left, right |-> ParentRight(T, s, seen) ]

\* TreeOnTableState.get_display_bindings
TreeOnTable_get_display_bindings(T, s) ==
    [ left |-> << DisplayBinding("enter", "Columns", "toggle_node"),
                  DisplayBinding("s", "Select TOP 100", "select_table"),
                  DisplayBinding("f", "Refresh", "refresh_tree") >>,
      right |-> ParentRight(T, s, {"toggle_node", "select_table", "refresh_tree"}) ]

\* TreeOnFolderState.get_display_bindings
TreeOnFolder_get_display_bindings(T, s) ==
    [ left |-> << DisplayBinding("enter", "Expand", "toggle_node"),
                  DisplayBinding("f", "Refresh", "refresh_tree") >>,
      right |-> ParentRight(T, s, {"toggle_node", "refresh_tree"}) ]

\* QueryNormalModeState.get_display_bindings
QueryNormal_get_display_bindings(T, s) ==
    [ left |-> << DisplayBinding("i", "Insert Mode", "enter_insert_mode"),
                  DisplayBinding("enter", "Execute", "execute_query"),
                  DisplayBinding("d", "Clear", "clear_query"),
                  DisplayBinding("n", "New", "new_query") >>,
      right |-> ParentRight(T, s, { "enter_insert_mode", "execute_query",
                                    "clear_query", "new_query" }) ]

\* QueryInsertModeState.get_display_bindings
QueryInsert_get_display_bindings ==
    [ left |-> << DisplayBinding("esc", "Normal Mode", "exit_insert_mode"),
                  DisplayBinding("f5", "Execute", "execute_query_insert"),
                  DisplayBinding("tab", "Autocomplete", "autocomplete_accept") >>,
      right |-> << >> ]

\* ResultsFocusedState.get_display_bindings
ResultsFocused_get_display_bindings(T, s) ==
    LET is_error == last_result_error
        left == IF is_error
                THEN << DisplayBinding("v", "View error", "view_cell"),
                        DisplayBinding("y", "Copy error", "copy_cell") >>
                ELSE << DisplayBinding("v", "View cell", "view_cell"),
                        DisplayBinding("y", "Copy cell", "copy_cell"),
                        DisplayBinding("Y", "Copy row", "copy_row"),
                        DisplayBinding("a", "Copy all", "copy_results") >>
    IN  [ left |-> left,
          right |-> ParentRight(T, s, { "view_cell", "copy_cell", "copy_row",
                                        "copy_results" }) ]

\* s.get_display_bindings(app), dispatched on the class of s
get_display_bindings(T, s) ==
    CASE T[s].cls = "ModalActiveState" -> Modal_get_display_bindings
      [] T[s].cls = "LeaderPendingState" -> Leader_get_display_bindings
      [] T[s].cls = "TreeOnConnectionState" -> TreeOnConnection_get_display_bindings(T, s)
      [] T[s].cls = "TreeOnTableState" -> TreeOnTable_get_display_bindings(T, s)
      [] T[s].cls = "TreeOnFolderState" -> TreeOnFolder_get_display_bindings(T, s)
      [] T[s].cls = "QueryNormalModeState" -> QueryNormal_get_display_bindings(T, s)
      [] T[s].cls = "QueryInsertModeState" -> QueryInsert_get_display_bindings
      [] T[s].cls = "ResultsFocusedState" -> ResultsFocused_get_display_bindings(T, s)
      [] OTHER -> State_get_display_bindings(T, s)

\* UIStateMachine.get_display_bindings
UI_get_display_bindings == get_display_bindings(Machine, get_active_state)

\* the footer of an application without a ContextFooter, or of one not running
NoFooter == [ state |-> NoneV, is_connected |-> FALSE, is_error |-> FALSE ]

\* what s.get_display_bindings(app) depends on: the state s itself and the
\* two conditions the overriding classes test (is_connected in
\* TreeOnConnectionState, is_error in ResultsFocusedState); no rule with a
\* display pair has a guard
SnapshotFor(s) ==
    [ state |-> s,
      is_connected |-> /\ s = "tree_on_connection"
                       /\ current_connection # NoneV
                       /\ cursor_node.kind = "connection"
                       /\ current_config # NoneV
                       /\ cursor_node.name = current_config,
      is_error |-> s = "results_focused" /\ last_result_error ]

\* what _update_footer_bindings hands to footer.set_bindings now
DisplaySnapshot == SnapshotFor(get_active_state)

\* _update_footer_bindings, called at the end of a handler: it returns at
\* once when there is no ContextFooter
update_footer_bindings ==
    footer' = IF has_footer THEN DisplaySnapshot' ELSE footer

\* the footer after refresh_tree: the NodeHighlighted message of the node
\* the cursor lands on reaches on_tree_node_highlighted, which updates the
\* footer; with the cursor on no node the footer stays as it was (keep)
highlighted_footer(refreshed, keep) ==
    footer' = IF has_footer /\ refreshed /\ cursor_node'.kind # "none"
              THEN DisplaySnapshot'
              ELSE keep

\* get_active_state once the top screen is popped off, the stack being stk
ActiveAfterPop(stk) ==
    IF \E i \in 1..Len(stk) : stk[i] \in ModalScreens
    THEN "modal_active"
    ELSE LET i == FirstActive(2)
         IN  IF i = 0 \/ States[i] = "root" THEN "main_screen" ELSE States[i]

\* ------------------------------------------------------------------------
\* The application: keymap, tree and initial state
\* ------------------------------------------------------------------------

\* a leader command definition of a keymap (key, action, label, category, guard)
CmdDef(key, action, label, category, guard) ==
    [ key |-> key, action |-> action, label |-> label,
      category |-> category, guard |-> guard ]

\* the keymap the application starts with
DefaultKeymap ==
    << CmdDef("x", "disconnect", "Disconnect", "Connection", "has_connection"),
       CmdDef("z", "cancel_operation", "Cancel", "Actions", "query_executing"),
       CmdDef("t", "change_theme", "Change Theme", "Actions", NoneV),
       CmdDef("h", "show_help", "Help", "Actions", NoneV),
       CmdDef("q", "quit", "Quit", "Actions", NoneV) >>

\* a keymap swapped in at run time: fewer commands, other guards, and one
\* guard name that LEADER_GUARDS does not know
AltKeymap ==
    << CmdDef("q", "quit", "Quit", "Actions", NoneV),
       CmdDef("h", "show_help", "Help", "Actions", "has_connection"),
       CmdDef("x", "disconnect", "Disconnect", "Connection", "no_such_guard") >>

Keymaps == { DefaultKeymap, AltKeymap }

\* the actions for which SSMSTUI defines an action_leader_<action> method
LeaderActions ==
    { "disconnect", "cancel_operation", "change_theme", "show_help", "quit" }

NoNode == [ kind |-> "none", name |-> NoneV ]

ConnectionNode(name) == [ kind |-> "connection", name |-> name ]

\* the first child of the tree root: the first configured connection
FirstNode == ConnectionNode("Prod")

\* the nodes of the explorer: one per configured connection and, while
\* connected, the objects of the connected server
TreeNodes(connection) ==
    { ConnectionNode(n) : n \in ConnNames }
    \cup IF connection # NoneV
         THEN { [ kind |-> k, name |-> NoneV ] : k \in {"table", "folder"} }
         ELSE {}

\* the chain of plain states of SpecState: child -> mid -> top
Chain ==
    [ top |-> NewState("State", NoneV, NoneV),
      mid |-> NewState("State", "top", NoneV),
      child |-> NewState("State", "mid", NoneV) ]

\* SSMSTUI.__init__ followed by on_mount: the tree is focused with the cursor
\* on the first connection, nothing is connected or running
Init ==
    /\ screen_stack = << >>
    /\ focus = "tree"
    /\ cursor_node = FirstNode
    /\ vim_mode = NORMAL
    /\ read_only = TRUE
    /\ focus_event = TRUE
    /\ leader_pending = FALSE
    /\ leader_timer = 0
    /\ timers = << >>
    /\ leader_timer_id = 0
    /\ menu_items = {}
    /\ NoWorkers
    /\ NoConn
    /\ current_connection = NoneV
    /\ current_config = NoneV
    /\ query_executing = FALSE
    /\ query_worker = NoneV
    /\ last_result_error = FALSE
    /\ keymap = DefaultKeymap
    /\ driver_setup \in BOOLEAN
    /\ exited = FALSE
    /\ reg = Chain
    /\ nregs = 0
    /\ late_callbacks = FALSE
    /\ has_footer = FALSE
    /\ footer = NoFooter

\* Textual runs a bound action only if App.check_action allows it
\* (SSMSTUI.check_action delegates to the state machine)
Key(action_name) == ~exited /\ UI_check_action(action_name)

\* widget.focus(): a DescendantFocus message is queued when focus moves
FocusOn(pane) ==
    /\ focus' = pane
    /\ focus_event' = (focus_event \/ focus # pane)

\* refresh_tree: the tree is cleared and rebuilt, the cursor lands on
\* whichever node is at its line now, or on none
RefreshTree == cursor_node' \in TreeNodes(current_connection') \cup {NoNode}

\* ------------------------------------------------------------------------
\* Handlers: focus and vim mode (ui/mixins/ui_navigation.py)
\* ------------------------------------------------------------------------

action_focus_explorer ==
    /\ Key("focus_explorer")
    /\ FocusOn("tree")
    /\ cursor_node' = IF cursor_node.kind = "none" THEN FirstNode ELSE cursor_node
    /\ UNCHANGED << screen_stack, vim_mode, read_only, current_connection,
                    current_config, query_executing, query_worker,
                    last_result_error, keymap, driver_setup, exited >>
    /\ UNCHANGED << leaderVars, regVars, envVars >>
    /\ highlighted_footer(cursor_node.kind = "none", footer)

action_focus_query ==
    /\ Key("focus_query")
    /\ vim_mode' = NORMAL
    /\ read_only' = TRUE
    /\ FocusOn("query")
    /\ UNCHANGED << screen_stack, cursor_node, current_connection,
                    current_config, query_executing, query_worker,
                    last_result_error, keymap, driver_setup, exited >>
    /\ UNCHANGED << leaderVars, regVars, envVars >>
    /\ UNCHANGED footer

action_focus_results ==
    /\ Key("focus_results")
    /\ FocusOn("results")
    /\ UNCHANGED << screen_stack, cursor_node, vim_mode, read_only,
                    current_connection, current_config, query_executing,
                    query_worker, last_result_error, keymap,
                    driver_setup, exited >>
    /\ UNCHANGED << leaderVars, regVars, envVars >>
    /\ UNCHANGED footer

action_enter_insert_mode ==
    /\ Key("enter_insert_mode")
    /\ focus = "query" /\ vim_mode = NORMAL
    /\ vim_mode' = INSERT
    /\ read_only' = FALSE
    /\ UNCHANGED << screen_stack, focus, cursor_node, focus_event,
                    current_connection, current_config, query_executing,
                    query_worker, last_result_error, keymap,
                    driver_setup, exited >>
    /\ UNCHANGED << leaderVars, regVars, envVars >>
    /\ update_footer_bindings

action_exit_insert_mode ==
    /\ Key("exit_insert_mode")
    /\ vim_mode = INSERT
    /\ vim_mode' = NORMAL
    /\ read_only' = TRUE
    /\ UNCHANGED << screen_stack, focus, cursor_node, focus_event,
                    current_connection, current_config, query_executing,
                    query_worker, last_result_error, keymap,
                    driver_setup, exited >>
    /\ UNCHANGED << leaderVars, regVars, envVars >>
    /\ update_footer_bindings

\* on_descendant_focus that resets the mode and leaves the editor writable
on_descendant_focus_keeps_writable ==
    /\ ~exited
    /\ focus_event
    /\ focus_event' = FALSE
    /\ IF focus # "query" /\ vim_mode = INSERT
       THEN vim_mode' = NORMAL /\ UNCHANGED read_only
       ELSE UNCHANGED << vim_mode, read_only >>
    /\ UNCHANGED << screen_stack, focus, cursor_node, current_connection,
                    current_config, query_executing, query_worker,
                    last_result_error, keymap, driver_setup, exited >>
    /\ UNCHANGED << leaderVars, regVars, envVars >>
    /\ update_footer_bindings

\* on_descendant_focus: the queued DescendantFocus message is handled
on_descendant_focus ==
    /\ ~exited
    /\ focus_event
    /\ focus_event' = FALSE
    /\ IF focus # "query" /\ vim_mode = INSERT
       THEN vim_mode' = NORMAL /\ read_only' = TRUE
       ELSE UNCHANGED << vim_mode, read_only >>
    /\ UNCHANGED << screen_stack, focus, cursor_node, current_connection,
                    current_config, query_executing, query_worker,
                    last_result_error, keymap, driver_setup, exited >>
    /\ UNCHANGED << leaderVars, regVars, envVars >>
    /\ update_footer_bindings

\* the user clicks one of the three panes of the base screen
MouseFocus ==
    /\ ~exited
    /\ ~AnyModal
    /\ \E pane \in Panes :
          /\ focus # pane
          /\ FocusOn(pane)
    /\ UNCHANGED << screen_stack, cursor_node, vim_mode, read_only,
                    current_connection, current_config, query_executing,
                    query_worker, last_result_error, keymap,
                    driver_setup, exited >>
    /\ UNCHANGED << leaderVars, regVars, envVars >>
    /\ UNCHANGED footer

\* the focused pane loses focus and no pane gains it (the case
\* action_toggle_fullscreen calls target = "none")
Blur ==
    /\ ~exited
    /\ focus # "none"
    /\ focus' = "none"
    /\ UNCHANGED << screen_stack, cursor_node, vim_mode, read_only,
                    focus_event, current_connection, current_config,
                    query_executing, query_worker,
                    last_result_error, keymap, driver_setup, exited >>
    /\ UNCHANGED << leaderVars, regVars, envVars >>
    /\ UNCHANGED footer

\* action_vim_down / action_vim_up with the tree focused, and the Tree
\* widget's own cursor keys: the cursor moves to another node
TreeCursorMove ==
    /\ ~exited
    /\ focus = "tree"
    /\ \/ Key("vim_down") /\ vim_mode # INSERT
       \/ Key("vim_up") /\ vim_mode # INSERT
       \/ ~AnyModal
    /\ cursor_node' \in TreeNodes(current_connection) \ {cursor_node}
    /\ UNCHANGED << screen_stack, focus, vim_mode, read_only, focus_event,
                    current_connection, current_config, query_executing,
                    query_worker, last_result_error, keymap,
                    driver_setup, exited >>
    /\ UNCHANGED << leaderVars, regVars, envVars >>
    /\ update_footer_bindings

\* ------------------------------------------------------------------------
\* Handlers: connections (ui/mixins/connection.py, ui/mixins/tree.py)
\* ------------------------------------------------------------------------

\* the body shared by action_connect_selected and on_tree_node_selected for
\* a connection node: _disconnect_silent if connected, then
\* connect_to_server, which succeeds, fails before current_connection is
\* assigned, or fails after it
ConnectSelected ==
    /\ cursor_node.kind = "connection"
    /\ ~(current_config # NoneV /\ current_config = cursor_node.name)
    /\ \E outcome \in {"connected", "failed_before", "failed_after"} :
          /\ current_connection' =
                IF outcome = "failed_before" THEN NoneV ELSE cursor_node.name
          /\ current_config' =
                IF outcome = "failed_before" THEN NoneV ELSE cursor_node.name
          /\ last_result_error' =
                IF outcome = "connected" THEN last_result_error ELSE TRUE
    /\ RefreshTree
    /\ UNCHANGED << screen_stack, focus, vim_mode, read_only, focus_event,
                    query_executing, query_worker, keymap,
                    driver_setup, exited >>
    /\ UNCHANGED << leaderVars, regVars, envVars >>
    /\ highlighted_footer(TRUE, footer)

action_connect_selected ==
    /\ Key("connect_selected")
    /\ ConnectSelected

\* the Tree widget's own enter key: Tree.NodeSelected reaches the app
\* without passing through check_action
on_tree_node_selected ==
    /\ ~exited
    /\ focus = "tree"
    /\ ~AnyModal
    /\ ConnectSelected

\* action_disconnect, on the variables of appVars; stk is the screen stack
\* the handler finds
Eff_disconnect(stk) ==
    /\ screen_stack' = stk
    /\ IF current_connection # NoneV
       THEN /\ current_connection' = NoneV
            /\ current_config' = NoneV
            /\ RefreshTree
       ELSE UNCHANGED << current_connection, current_config, cursor_node >>
    /\ UNCHANGED << focus, vim_mode, read_only, focus_event, query_executing,
                    query_worker, last_result_error, keymap,
                    driver_setup, exited >>

action_disconnect ==
    /\ Key("disconnect")
    /\ Eff_disconnect(screen_stack)
    /\ UNCHANGED << leaderVars, regVars, envVars >>
    /\ highlighted_footer(current_connection # NoneV, footer)

\* ------------------------------------------------------------------------
\* Handlers: queries (ui/mixins/query.py)
\* ------------------------------------------------------------------------

\* _execute_query_common past its two early returns: the previous worker is
\* cancelled, the spinner started, a new worker run
ExecuteQueryCommon(keep_insert_mode) ==
    /\ current_connection # NoneV
    /\ query_executing' = TRUE
    /\ query_worker' = IF keep_insert_mode THEN "running_keep" ELSE "running"
    /\ UNCHANGED << screen_stack, focus, cursor_node, vim_mode, read_only,
                    focus_event, current_connection, current_config,
                    last_result_error, keymap, driver_setup, exited >>
    /\ UNCHANGED << leaderVars, regVars, envVars >>
    /\ UNCHANGED footer

action_execute_query ==
    /\ Key("execute_query")
    /\ ExecuteQueryCommon(FALSE)

action_execute_query_insert ==
    /\ Key("execute_query_insert")
    /\ ExecuteQueryCommon(TRUE)

\* action_select_table: builds the SELECT and calls action_execute_query
action_select_table ==
    /\ Key("select_table")
    /\ cursor_node.kind = "table"
    /\ ExecuteQueryCommon(FALSE)

\* _run_query_async runs to its end: the result or the error is displayed,
\* INSERT mode restored after a result if asked, and the finally block
\* stops the spinner
QueryDone ==
    /\ ~exited
    /\ query_worker \in {"running", "running_keep"}
    /\ query_worker' = "done"
    /\ query_executing' = FALSE
    /\ \E outcome \in {"result", "error"} :
          /\ last_result_error' = (outcome = "error")
          /\ IF outcome = "result" /\ query_worker = "running_keep"
             THEN /\ vim_mode' = INSERT
                  /\ read_only' = FALSE
                  /\ FocusOn("query")
             ELSE UNCHANGED << vim_mode, read_only, focus, focus_event >>
    /\ UNCHANGED << screen_stack, cursor_node, current_connection,
                    current_config, keymap, driver_setup, exited >>
    /\ UNCHANGED << leaderVars, regVars, envVars >>
    /\ IF query_worker = "running_keep" /\ ~last_result_error'
       THEN update_footer_bindings
       ELSE UNCHANGED footer

\* action_cancel_operation, on the variables of appVars
Eff_cancel_operation(stk) ==
    /\ screen_stack' = stk
    /\ IF query_executing
       THEN query_worker' = NoneV /\ query_executing' = FALSE
       ELSE UNCHANGED << query_worker, query_executing >>
    /\ UNCHANGED << focus, cursor_node, vim_mode, read_only, focus_event,
                    current_connection, current_config,
                    last_result_error, keymap, driver_setup, exited >>

action_cancel_operation ==
    /\ Key("cancel_operation")
    /\ query_executing
    /\ Eff_cancel_operation(screen_stack)
    /\ UNCHANGED << leaderVars, regVars, envVars >>
    /\ UNCHANGED footer

\* ------------------------------------------------------------------------
\* Handlers: modal screens
\* ------------------------------------------------------------------------

\* SSMSTUI.push_screen of a modal screen on the stack stk, on appVars
PushScreen(stk, screen) ==
    /\ screen_stack' = Append(stk, screen)
    /\ UNCHANGED << focus, cursor_node, vim_mode, read_only, focus_event,
                    current_connection, current_config, query_executing,
                    query_worker, last_result_error, keymap,
                    driver_setup, exited >>

\* action_show_help, on appVars
Eff_show_help(stk) == PushScreen(stk, "HelpScreen")

\* action_change_theme, on appVars
Eff_change_theme(stk) == PushScreen(stk, "ThemeScreen")

action_show_help ==
    /\ Key("show_help")
    /\ Eff_show_help(screen_stack)
    /\ UNCHANGED << leaderVars, regVars, envVars >>
    /\ update_footer_bindings

\* _show_driver_setup that also drops the pending leader press
ShowDriverSetup_cancels_pending ==
    /\ ~exited
    /\ driver_setup
    /\ driver_setup' = FALSE
    /\ screen_stack' = Append(screen_stack, "DriverSetupScreen")
    /\ leader_pending' = FALSE
    /\ UNCHANGED << focus, cursor_node, vim_mode, read_only, focus_event,
                    current_connection, current_config, query_executing,
                    query_worker, last_result_error, keymap,
                    exited >>
    /\ UNCHANGED << leader_timer, leader_timer_id, timers, menu_items, regVars,
                    envVars >>
    /\ update_footer_bindings

\* _show_driver_setup, scheduled by on_mount with call_later
ShowDriverSetup ==
    /\ ~exited
    /\ driver_setup
    /\ driver_setup' = FALSE
    /\ screen_stack' = Append(screen_stack, "DriverSetupScreen")
    /\ UNCHANGED << focus, cursor_node, vim_mode, read_only, focus_event,
                    current_connection, current_config, query_executing,
                    query_worker, last_result_error, keymap,
                    exited >>
    /\ UNCHANGED << leaderVars, regVars, envVars >>
    /\ update_footer_bindings

\* App.exit(): the run ends.  The screens are closed, the timers and workers
\* are stopped and the application object is dropped; nothing of it is
\* observable afterwards, so the model keeps one terminated state per keymap
Exit ==
    /\ exited' = TRUE
    /\ screen_stack' = << >>
    /\ focus' = "none"
    /\ focus_event' = FALSE
    /\ cursor_node' = NoNode
    /\ vim_mode' = NORMAL
    /\ read_only' = TRUE
    /\ current_connection' = NoneV
    /\ current_config' = NoneV
    /\ query_executing' = FALSE
    /\ query_worker' = NoneV
    /\ last_result_error' = FALSE
    /\ driver_setup' = FALSE
    /\ leader_pending' = FALSE
    /\ leader_timer' = 0
    /\ timers' = << >>
    /\ leader_timer_id' = 0
    /\ menu_items' = {}
    /\ UNCHANGED keymap

\* the built-in action_quit: App.exit()
action_quit ==
    /\ Key("quit")
    /\ Exit
    /\ UNCHANGED << regVars, envVars >>
    /\ footer' = NoFooter

\* ------------------------------------------------------------------------
\* Handlers: the leader dispatcher (ui/mixins/ui_navigation.py)
\* ------------------------------------------------------------------------

\* Timer.stop() on timer i
StopTimer(tms, i) ==
    [ tms EXCEPT ![i] = IF @ = "live" THEN "stopped" ELSE @ ]

\* a timer whose callback the event loop can still run: one that is
\* scheduled, or, with late_callbacks, one that was stopped (show_menu tests
\* _leader_pending for that case)
CanFire(t) == t = "live" \/ (late_callbacks /\ t \in {"stopped", "cancelled"})

\* the timers that survive once _leader_timer is ref: a Timer object whose
\* callback can no longer run and that is not referenced is garbage
Alive(tms, ref) == { i \in 1..Len(tms) : CanFire(tms[i]) \/ i = ref }

\* the k-th timer of Alive(tms, ref)
Kth(tms, ref, k) ==
    CHOOSE i \in Alive(tms, ref) :
        Cardinality({ j \in Alive(tms, ref) : j <= i }) = k

\* the surviving timers, renumbered
Collect(tms, ref) ==
    [ k \in 1..Cardinality(Alive(tms, ref)) |-> tms[Kth(tms, ref, k)] ]

\* the index of timer ref among the surviving ones
Renumber(tms, ref) ==
    IF ref = 0 THEN 0
    ELSE Cardinality({ j \in Alive(tms, ref) : j <= ref })

\* the Timer object set_timer returns: a new one, other than the scheduled
\* timer it replaces
NewTimerId ==
    IF leader_timer # 0 /\ timers[leader_timer] = "live"
    THEN 1 - leader_timer_id
    ELSE 0

\* action_leader_key that schedules the new timer and does not stop the old
action_leader_key_keeps_old_timer ==
    /\ Key("leader_key")
    /\ Len(timers) < MaxTimers
    /\ vim_mode # INSERT
    /\ leader_pending' = TRUE
    /\ LET scheduled == Append(timers, "live")
       IN  /\ timers' = Collect(scheduled, Len(scheduled))
           /\ leader_timer' = Renumber(scheduled, Len(scheduled))
           /\ leader_timer_id' = NewTimerId
    /\ UNCHANGED menu_items
    /\ UNCHANGED << appVars, regVars, envVars >>
    /\ UNCHANGED footer

\* action_leader_key that sets the flag and schedules no timer
action_leader_key_sets_no_timer ==
    /\ Key("leader_key")
    /\ vim_mode # INSERT
    /\ leader_pending' = TRUE
    /\ UNCHANGED << leader_timer, leader_timer_id, timers, menu_items >>
    /\ UNCHANGED << appVars, regVars, envVars >>
    /\ UNCHANGED footer

action_leader_key ==
    /\ Key("leader_key")
    /\ Len(timers) < MaxTimers
    /\ vim_mode # INSERT
    /\ leader_pending' = TRUE
    /\ LET stopped == IF leader_timer # 0
                       THEN StopTimer(timers, leader_timer)
                       ELSE timers
           scheduled == Append(stopped, "live")
       IN  /\ timers' = Collect(scheduled, Len(scheduled))
           /\ leader_timer' = Renumber(scheduled, Len(scheduled))
           /\ leader_timer_id' = NewTimerId
    /\ UNCHANGED menu_items
    /\ UNCHANGED << appVars, regVars, envVars >>
    /\ UNCHANGED footer

\* the commands a LeaderMenuScreen lists when it is composed: those whose
\* guard passes at that moment
MenuChoices ==
    LET cmds == get_leader_commands(keymap)
    IN  { cmds[i] : i \in { j \in 1..Len(cmds) : is_allowed(cmds[j].guard) } }

\* show_menu whose _show_leader_menu pushes the menu over an open modal screen
show_menu_over_modal ==
    /\ ~exited
    /\ \E i \in 1..Len(timers) :
          /\ CanFire(timers[i])
          /\ timers' = Collect([ timers EXCEPT ![i] = "fired" ], leader_timer)
          /\ leader_timer' = Renumber([ timers EXCEPT ![i] = "fired" ], leader_timer)
          /\ leader_timer_id' = IF i = leader_timer THEN 0 ELSE leader_timer_id
    /\ IF leader_pending
       THEN /\ leader_pending' = FALSE
            /\ screen_stack' = Append(screen_stack, "LeaderMenuScreen")
            /\ menu_items' = MenuChoices
       ELSE UNCHANGED << leader_pending, screen_stack, menu_items >>
    /\ UNCHANGED << focus, cursor_node, vim_mode, read_only, focus_event,
                    current_connection, current_config, query_executing,
                    query_worker, last_result_error, keymap,
                    driver_setup, exited >>
    /\ UNCHANGED << regVars, envVars >>
    /\ IF screen_stack' # screen_stack
       THEN update_footer_bindings
       ELSE UNCHANGED footer

\* the timer callback show_menu of action_leader_key, with _show_leader_menu
show_menu ==
    /\ ~exited
    /\ \E i \in 1..Len(timers) :
          /\ CanFire(timers[i])
          /\ timers' = Collect([ timers EXCEPT ![i] = "fired" ], leader_timer)
          /\ leader_timer' = Renumber([ timers EXCEPT ![i] = "fired" ], leader_timer)
          /\ leader_timer_id' = IF i = leader_timer THEN 0 ELSE leader_timer_id
    /\ IF leader_pending
       THEN /\ leader_pending' = FALSE
            /\ IF AnyModal
               THEN UNCHANGED << screen_stack, menu_items >>
               ELSE /\ screen_stack' = Append(screen_stack, "LeaderMenuScreen")
                    /\ menu_items' = MenuChoices
       ELSE UNCHANGED << leader_pending, screen_stack, menu_items >>
    /\ UNCHANGED << focus, cursor_node, vim_mode, read_only, focus_event,
                    current_connection, current_config, query_executing,
                    query_worker, last_result_error, keymap,
                    driver_setup, exited >>
    /\ UNCHANGED << regVars, envVars >>
    /\ IF screen_stack' # screen_stack
       THEN update_footer_bindings
       ELSE UNCHANGED footer

\* _cancel_leader_pending that clears the flag and leaves the timer running
cancel_leader_pending_keeps_timer ==
    /\ leader_pending' = FALSE
    /\ UNCHANGED << timers, leader_timer, leader_timer_id >>

\* _cancel_leader_pending
cancel_leader_pending ==
    /\ leader_pending' = FALSE
    /\ IF leader_timer # 0
       THEN /\ timers' = Collect([ timers EXCEPT ![leader_timer] =
                                       IF @ = "live" THEN "cancelled" ELSE @ ], 0)
            /\ leader_timer' = 0
            /\ leader_timer_id' = 0
       ELSE UNCHANGED << timers, leader_timer, leader_timer_id >>

\* _execute_leader_command(action), the handler finding the screen stack stk
execute_leader_command(action, stk) ==
    /\ IF action = "quit"
       THEN Exit
       ELSE /\ cancel_leader_pending
            /\ menu_items' = {}
            /\ CASE action = "disconnect" -> Eff_disconnect(stk)
                 [] action = "cancel_operation" -> Eff_cancel_operation(stk)
                 [] action = "change_theme" -> Eff_change_theme(stk)
                 [] action = "show_help" -> Eff_show_help(stk)
                 [] OTHER ->
                      /\ screen_stack' = stk
                      /\ UNCHANGED << focus, cursor_node, vim_mode, read_only,
                                      focus_event, current_connection,
                                      current_config, query_executing,
                                      query_worker, last_result_error, keymap,
                                      driver_setup, exited >>
    /\ UNCHANGED << regVars, envVars >>

\* action_leader_<action>: the key of a leader command, pressed while pending
\* the footer once _execute_leader_command(action) has run, keep being what
\* it showed before: self.exit() ends the run, the two screens are pushed
\* through push_screen, which updates the footer, action_disconnect
\* refreshes the tree, and action_cancel_operation leaves the footer alone
command_footer(action, keep) ==
    footer' =
        IF ~has_footer THEN footer
        ELSE CASE action = "quit" -> NoFooter
               [] action \in {"change_theme", "show_help"} -> DisplaySnapshot'
               [] action = "disconnect" ->
                    IF current_connection # NoneV /\ cursor_node' # NoNode
                    THEN DisplaySnapshot'
                    ELSE keep
               [] OTHER -> keep

action_leader ==
    \E action \in LeaderActions :
        /\ Key(binding_action([action |-> action]))
        /\ execute_leader_command(action, screen_stack)
        /\ command_footer(action, footer)

\* Dismiss whose _handle_leader_result does not call _update_footer_bindings
Dismiss_keeps_footer ==
    /\ ~exited
    /\ screen_stack # << >>
    /\ LET top == screen_stack[Len(screen_stack)]
           stk == SubSeq(screen_stack, 1, Len(screen_stack) - 1)
       IN  IF top = "LeaderMenuScreen"
           THEN \/ /\ screen_stack' = stk
                   /\ UNCHANGED << focus, cursor_node, vim_mode, read_only,
                                   focus_event, current_connection,
                                   current_config, query_executing,
                                   query_worker,
                                   last_result_error, keymap, driver_setup,
                                   exited >>
                   /\ menu_items' = {}
                   /\ UNCHANGED << leader_pending, leader_timer,
                                   leader_timer_id, timers, regVars, envVars >>
                   /\ UNCHANGED footer
                \/ \E result \in { cmd.action : cmd \in menu_items } :
                       /\ execute_leader_command(result, stk)
                       /\ command_footer(result, footer)
           ELSE /\ screen_stack' = stk
                /\ UNCHANGED << focus, cursor_node, vim_mode, read_only,
                                focus_event, current_connection,
                                current_config, query_executing, query_worker,
                                last_result_error, keymap,
                                driver_setup, exited >>
                /\ UNCHANGED << leaderVars, regVars, envVars >>
                /\ update_footer_bindings

\* the top screen is dismissed; the leader menu hands its result to
\* _handle_leader_result, which runs the selected command
Dismiss ==
    /\ ~exited
    /\ screen_stack # << >>
    /\ LET top == screen_stack[Len(screen_stack)]
           stk == SubSeq(screen_stack, 1, Len(screen_stack) - 1)
       IN  IF top = "LeaderMenuScreen"
           THEN \/ /\ screen_stack' = stk
                   /\ UNCHANGED << focus, cursor_node, vim_mode, read_only,
                                   focus_event, current_connection,
                                   current_config, query_executing,
                                   query_worker,
                                   last_result_error, keymap, driver_setup,
                                   exited >>
                   /\ menu_items' = {}
                   /\ UNCHANGED << leader_pending, leader_timer,
                                   leader_timer_id, timers, regVars, envVars >>
                   /\ update_footer_bindings
                \/ \E result \in { cmd.action : cmd \in menu_items } :
                       /\ execute_leader_command(result, stk)
                       /\ command_footer(result, SnapshotFor(ActiveAfterPop(stk)))
           ELSE /\ screen_stack' = stk
                /\ UNCHANGED << focus, cursor_node, vim_mode, read_only,
                                focus_event, current_connection,
                                current_config, query_executing, query_worker,
                                last_result_error, keymap,
                                driver_setup, exited >>
                /\ UNCHANGED << leaderVars, regVars, envVars >>
                /\ update_footer_bindings

\* the keymap provider is replaced (keymaps are swapped under test)
SetKeymap ==
    /\ ~exited
    /\ \E km \in Keymaps \ {keymap} : keymap' = km
    /\ UNCHANGED << screen_stack, focus, cursor_node, vim_mode, read_only,
                    focus_event, current_connection, current_config,
                    query_executing, query_worker,
                    last_result_error, driver_setup, exited >>
    /\ UNCHANGED << leaderVars, regVars, envVars >>
    /\ UNCHANGED footer

Next ==
    \/ action_focus_explorer
    \/ action_focus_query
    \/ action_focus_results
    \/ action_enter_insert_mode
    \/ action_exit_insert_mode
    \/ on_descendant_focus
    \/ MouseFocus
    \/ Blur
    \/ TreeCursorMove
    \/ action_connect_selected
    \/ on_tree_node_selected
    \/ action_disconnect
    \/ action_execute_query
    \/ action_execute_query_insert
    \/ action_select_table
    \/ QueryDone
    \/ action_cancel_operation
    \/ action_show_help
    \/ ShowDriverSetup
    \/ action_quit
    \/ action_leader_key
    \/ show_menu
    \/ action_leader
    \/ Dismiss
    \/ SetKeymap

Spec == Init /\ [][Next]_vars

\* the callback of the scheduled Timer object id runs
TimerFires(id) ==
    /\ leader_timer # 0
    /\ timers[leader_timer] = "live"
    /\ leader_timer_id = id
    /\ show_menu
    /\ leader_timer' # 0
    /\ timers'[leader_timer'] = "fired"

\* the application on an event loop that keeps running: set_timer(0.2,
\* show_menu) schedules a one-shot Timer whose callback the loop runs once
\* the delay has passed unless stop() was called on that Timer object before;
\* a timer that action_leader_key stops and replaces is another object, and
\* the loop owes the stopped one nothing
SpecFair ==
    /\ Init
    /\ [][Next]_vars
    /\ WF_vars(TimerFires(0))
    /\ WF_vars(TimerFires(1))

\* the application on an event loop that may still run the callback of a
\* timer that came due before stop() was called on it
InitLate ==
    /\ screen_stack = << >>
    /\ focus = "tree"
    /\ cursor_node = FirstNode
    /\ vim_mode = NORMAL
    /\ read_only = TRUE
    /\ focus_event = TRUE
    /\ leader_pending = FALSE
    /\ leader_timer = 0
    /\ timers = << >>
    /\ leader_timer_id = 0
    /\ menu_items = {}
    /\ NoWorkers
    /\ NoConn
    /\ current_connection = NoneV
    /\ current_config = NoneV
    /\ query_executing = FALSE
    /\ query_worker = NoneV
    /\ last_result_error = FALSE
    /\ keymap = DefaultKeymap
    /\ driver_setup \in BOOLEAN
    /\ exited = FALSE
    /\ reg = Chain
    /\ nregs = 0
    /\ late_callbacks = TRUE
    /\ has_footer = FALSE
    /\ footer = NoFooter

SpecLate == InitLate /\ [][Next]_vars

\* the application with its ContextFooter mounted: on_mount sets the footer
\* before the tree is focused, while MainScreenState is the active state
InitFooter ==
    /\ screen_stack = << >>
    /\ focus = "tree"
    /\ cursor_node = FirstNode
    /\ vim_mode = NORMAL
    /\ read_only = TRUE
    /\ focus_event = TRUE
    /\ leader_pending = FALSE
    /\ leader_timer = 0
    /\ timers = << >>
    /\ leader_timer_id = 0
    /\ menu_items = {}
    /\ NoWorkers
    /\ NoConn
    /\ current_connection = NoneV
    /\ current_config = NoneV
    /\ query_executing = FALSE
    /\ query_worker = NoneV
    /\ last_result_error = FALSE
    /\ keymap = DefaultKeymap
    /\ driver_setup \in BOOLEAN
    /\ exited = FALSE
    /\ reg = Chain
    /\ nregs = 0
    /\ late_callbacks = FALSE
    /\ has_footer = TRUE
    /\ footer = SnapshotFor("main_screen")

SpecFooter == InitFooter /\ [][Next]_vars

\* ------------------------------------------------------------------------
\* SpecState: the State base class on a chain child -> mid -> top
\* ------------------------------------------------------------------------

ChainStates == { "child", "mid", "top" }

\* the action names and guards the calls on the chain are made with
ChainActions == { "connect_selected", "disconnect" }

ChainGuards == { NoneV, "can_connect" }

\* the snapshot the guards are evaluated on: the cursor on connection Prod,
\* connected to Prod (can_connect fails) or not connected (it passes), the
\* tree focused or the query editor focused in INSERT mode
InitState ==
    /\ screen_stack = << >>
    /\ cursor_node = FirstNode
    /\ \E f \in {"tree", "query"} :
          /\ focus = f
          /\ vim_mode = IF f = "query" THEN INSERT ELSE NORMAL
          /\ read_only = (f # "query")
    /\ focus_event = FALSE
    /\ leader_pending = FALSE
    /\ leader_timer = 0
    /\ timers = << >>
    /\ leader_timer_id = 0
    /\ menu_items = {}
    /\ NoWorkers
    /\ NoConn
    /\ \E c \in {NoneV, "Prod"} :
          current_connection = c /\ current_config = c
    /\ query_executing = FALSE
    /\ query_worker = NoneV
    /\ last_result_error = FALSE
    /\ keymap = DefaultKeymap
    /\ driver_setup = FALSE
    /\ exited = FALSE
    /\ reg = Chain
    /\ nregs = 0
    /\ late_callbacks = FALSE
    /\ has_footer = FALSE
    /\ footer = NoFooter

\* s.allows(action_name, guard) on a state of the chain
CallAllows ==
    /\ nregs < MaxRegs
    /\ \E s \in ChainStates, a \in ChainActions, g \in ChainGuards :
          reg' = [ reg EXCEPT ![s] =
                     allows(@, a, g, NoneV, NoneV, FALSE, NoneV, NoneV) ]
    /\ nregs' = nregs + 1
    /\ UNCHANGED << appVars, leaderVars, envVars, footer >>

\* s.forbids(action_name) on a state of the chain
CallForbids ==
    /\ nregs < MaxRegs
    /\ \E s \in ChainStates, a \in ChainActions :
          reg' = [ reg EXCEPT ![s] = forbids(@, {a}) ]
    /\ nregs' = nregs + 1
    /\ UNCHANGED << appVars, leaderVars, envVars, footer >>

NextState == CallAllows \/ CallForbids

SpecState == InitState /\ [][NextState]_vars

\* ---------------------------------------------------------------------
\* Display registrations on the chain child -> mid -> top
\* ---------------------------------------------------------------------

\* the states of the chain that receive display registrations; mid stays
\* empty and only passes its parent's bindings through
DisplayStates == { "child", "top" }

\* the key= / label= arguments of allows(): none, or one of two pairs
DisplayPairs ==
    { [ key |-> NoneV, label |-> NoneV ],
      [ key |-> "a", label |-> "Alpha" ],
      [ key |-> "b", label |-> "Beta" ] }

\* the chain before any registration, the cursor on a connection node of
\* the tree, connected to it or not
InitDisplay ==
    /\ InitState
    /\ focus = "tree"

\* s.allows(action_name, guard, key=, label=, right=) on a state of the
\* chain; right= is passed only with a display pair
CallAllowsDisplay ==
    /\ nregs < MaxRegs
    /\ \E s \in DisplayStates, a \in ChainActions, g \in ChainGuards,
          d \in DisplayPairs, right \in BOOLEAN :
          /\ (d.key = NoneV => ~right)
          /\ reg' = [ reg EXCEPT ![s] =
                        allows(@, a, g, d.key, d.label, right, NoneV, NoneV) ]
    /\ nregs' = nregs + 1
    /\ UNCHANGED << appVars, leaderVars, envVars, footer >>

NextDisplay == CallAllowsDisplay

SpecDisplay == InitDisplay /\ [][NextDisplay]_vars

\* ---------------------------------------------------------------------
\* Help registrations on the chain child -> mid -> top
\* ---------------------------------------------------------------------

\* the chain as the list _states of a state machine: most specific first
ChainOrder == << "child", "mid", "top" >>

\* the chain with help categories: child in a category that is printed
\* last, top in one that is printed first, mid in top's category or in none
HelpChain(mid_category) ==
    [ Chain EXCEPT !["child"].help_category = "General",
                   !["mid"].help_category = mid_category,
                   !["top"].help_category = "Explorer" ]

\* the help= / help_key= arguments of allows(): none, or a key with a text
HelpPairs ==
    { [ help_key |-> NoneV, help |-> NoneV ],
      [ help_key |-> "j", help |-> "Move down" ],
      [ help_key |-> "j", help |-> "Next row" ],
      [ help_key |-> "enter", help |-> "Connect" ] }

\* the chain before any registration, under either keymap
InitHelp ==
    /\ screen_stack = << >>
    /\ cursor_node = FirstNode
    /\ focus = "tree"
    /\ vim_mode = NORMAL
    /\ read_only = TRUE
    /\ focus_event = FALSE
    /\ leader_pending = FALSE
    /\ leader_timer = 0
    /\ timers = << >>
    /\ leader_timer_id = 0
    /\ menu_items = {}
    /\ NoWorkers
    /\ NoConn
    /\ current_connection = NoneV
    /\ current_config = NoneV
    /\ query_executing = FALSE
    /\ query_worker = NoneV
    /\ last_result_error = FALSE
    /\ keymap \in Keymaps
    /\ driver_setup = FALSE
    /\ exited = FALSE
    /\ \E c \in {NoneV, "Explorer"} : reg = HelpChain(c)
    /\ nregs = 0
    /\ late_callbacks = FALSE
    /\ has_footer = FALSE
    /\ footer = NoFooter

\* s.allows(action_name, help=, help_key=) on a state of the chain
CallAllowsHelp ==
    /\ nregs < MaxRegs
    /\ \E s \in ChainStates, a \in ChainActions, h \in HelpPairs :
          reg' = [ reg EXCEPT ![s] =
                     allows(@, a, NoneV, NoneV, NoneV, FALSE, h.help, h.help_key) ]
    /\ nregs' = nregs + 1
    /\ UNCHANGED << appVars, leaderVars, envVars, footer >>

NextHelp == CallAllowsHelp

SpecHelp == InitHelp /\ [][NextHelp]_vars

\* ---------------------------------------------------------------------
\* Rules whose guard may raise, on the chain child -> mid -> top
\* ---------------------------------------------------------------------

\* the guards passed to allows(): none, one that returns, one that raises
RuleGuards == ChainGuards \cup RaisingGuards

\* s.allows(action_name, guard) on a state of the chain
CallAllowsGuard ==
    /\ nregs < MaxRegs
    /\ \E s \in ChainStates, a \in ChainActions, g \in RuleGuards :
          reg' = [ reg EXCEPT ![s] =
                     allows(@, a, g, NoneV, NoneV, FALSE, NoneV, NoneV) ]
    /\ nregs' = nregs + 1
    /\ UNCHANGED << appVars, leaderVars, envVars, footer >>

NextGuard == CallAllowsGuard \/ CallForbids

SpecGuard == InitState /\ [][NextGuard]_vars

\* ------------------------------------------------------------------------
\* Properties
\* ------------------------------------------------------------------------

\* the states of the hierarchy that use State.check_action as it is
BaseCheckStates ==
    { s \in StateIds :
        Machine[s].cls \notin {"ModalActiveState", "LeaderPendingState"} }

\* every action name the state machine is asked about: the rules and forbids
\* of the hierarchy, the display-only names, the leader binding actions and
\* a name nobody registers
ActionNames ==
    UNION { DOMAIN Machine[s].actions : s \in StateIds }
    \cup UNION { Machine[s].forbidden : s \in StateIds }
    \cup { "leader_" \o a : a \in LeaderActions }
    \cup { "toggle_node", "leader_pending", "no_such_action" }

RECURSIVE Ancestors(_, _)
\* s and the states above it in the table T
Ancestors(T, s) ==
    IF T[s].parent = NoneV THEN {s} ELSE {s} \cup Ancestors(T, T[s].parent)

\* ---------------------------------------------------------------------
\* The application with its authorization and display queries as steps
\* ---------------------------------------------------------------------

\* a query that clears the leader flag as a side effect
QueryCheckAction_clears_pending ==
    /\ ~exited
    /\ \A a \in ActionNames : UI_check_action(a) \in BOOLEAN
    /\ leader_pending' = FALSE
    /\ UNCHANGED << leader_timer, leader_timer_id, timers, menu_items >>
    /\ UNCHANGED << appVars, regVars, envVars, footer >>

\* UIStateMachine.get_active_state(app), called by the host
QueryActiveState ==
    /\ UNCHANGED vars
    /\ ~exited
    /\ get_active_state \in StateIds

\* SSMSTUI.check_action(action, parameters), called by the framework for
\* the action of every key binding
QueryCheckAction ==
    /\ UNCHANGED vars
    /\ ~exited
    /\ \A a \in ActionNames : UI_check_action(a) \in BOOLEAN

\* UIStateMachine.get_display_bindings(app), called by the footer update
QueryDisplayBindings ==
    /\ UNCHANGED vars
    /\ ~exited
    /\ DOMAIN UI_get_display_bindings = {"left", "right"}

NextQuery == Next \/ QueryActiveState \/ QueryCheckAction \/ QueryDisplayBindings

SpecQuery == Init /\ [][NextQuery]_vars

\* C1: a forbidden action is FORBIDDEN in every state that uses the base
\* check_action, whether or not the state has a rule for it, whatever the
\* rule's guard returns and whatever the ancestors allow; so it is not
\* permitted while that state is the active one.
C1_ForbiddenWins ==
    /\ \A s \in ChainStates, a \in ChainActions :
          a \in reg[s].forbidden => check_action(reg, s, a) = FORBIDDEN
    /\ \A s \in BaseCheckStates, a \in ActionNames :
          a \in Machine[s].forbidden =>
             /\ check_action(Machine, s, a) = FORBIDDEN
             /\ get_active_state = s => ~UI_check_action(a)

\* C1 witness: the child forbids an action for which it has a rule whose
\* guard passes and which mid allows without guard, while the state that
\* forbids leader_key in the hierarchy is the active one
C1_Witness ==
    /\ \E a \in ChainActions :
          /\ a \in reg["child"].forbidden
          /\ a \in DOMAIN reg["child"].actions
          /\ reg["child"].actions[a].guard # NoneV
          /\ is_allowed(reg["child"].actions[a].guard)
          /\ a \in DOMAIN reg["mid"].actions
          /\ reg["mid"].actions[a].guard = NoneV
    /\ get_active_state = "query_insert"
    /\ "leader_key" \in Machine["query_insert"].forbidden

\* C2 as stated: every state of the hierarchy without rule and forbid entry
\* for A answers as its parent does, the root answers UNHANDLED.
C2_Original ==
    \A s \in StateIds, a \in ActionNames :
        (a \notin DOMAIN Machine[s].actions /\ a \notin Machine[s].forbidden) =>
            check_action(Machine, s, a) =
                IF Machine[s].parent # NoneV
                THEN check_action(Machine, Machine[s].parent, a)
                ELSE UNHANDLED

\* C2 amended: every state that uses the base check_action (all but
\* ModalActiveState and LeaderPendingState) and has no rule and no forbid
\* entry for A answers as its parent does; the root without a rule answers
\* UNHANDLED, and an UNHANDLED answer of the active state is not permitted.
C2_Delegation ==
    /\ \A s \in BaseCheckStates, a \in ActionNames :
          (a \notin DOMAIN Machine[s].actions /\ a \notin Machine[s].forbidden) =>
              check_action(Machine, s, a) =
                  IF Machine[s].parent # NoneV
                  THEN check_action(Machine, Machine[s].parent, a)
                  ELSE UNHANDLED
    /\ \A a \in ActionNames :
          check_action(Machine, get_active_state, a) = UNHANDLED =>
              ~UI_check_action(a)

\* C2 witness: the active state has no rules of its own; it gets ALLOWED
\* from two levels up and UNHANDLED from the root
C2_Witness ==
    /\ get_active_state = "tree_on_folder"
    /\ DOMAIN Machine["tree_on_folder"].actions = {}
    /\ "focus_explorer" \in DOMAIN Machine["main_screen"].actions
    /\ check_action(Machine, "tree_on_folder", "focus_explorer") = ALLOWED
    /\ check_action(Machine, "tree_on_folder", "toggle_node") = UNHANDLED

\* C3 as stated: a state with its own rule for A answers ALLOWED when the
\* rule has no guard and FORBIDDEN when its guard is false.
C3_Original ==
    \A s \in ChainStates, a \in ChainActions :
        a \in DOMAIN reg[s].actions =>
            /\ reg[s].actions[a].guard = NoneV =>
                  check_action(reg, s, a) = ALLOWED
            /\ (reg[s].actions[a].guard # NoneV
                  /\ ~GuardEval(reg[s].actions[a].guard)) =>
                  check_action(reg, s, a) = FORBIDDEN

\* C3 amended: a state with its own rule for A that does not forbid A
\* answers ALLOWED when the rule has no guard and FORBIDDEN when its guard
\* is false, whatever rules its ancestors have.
C3_LocalDecision ==
    \A s \in ChainStates, a \in ChainActions :
        (a \in DOMAIN reg[s].actions /\ a \notin reg[s].forbidden) =>
            /\ reg[s].actions[a].guard = NoneV =>
                  check_action(reg, s, a) = ALLOWED
            /\ (reg[s].actions[a].guard # NoneV
                  /\ ~GuardEval(reg[s].actions[a].guard)) =>
                  check_action(reg, s, a) = FORBIDDEN

\* C3 witness: the child's guard for an action fails while mid allows the
\* action without guard, and the top forbids what mid allows without guard
C3_Witness ==
    \E a \in ChainActions :
        /\ a \in DOMAIN reg["child"].actions
        /\ a \notin reg["child"].forbidden
        /\ reg["child"].actions[a].guard # NoneV
        /\ ~GuardEval(reg["child"].actions[a].guard)
        /\ a \in DOMAIN reg["mid"].actions
        /\ reg["mid"].actions[a].guard = NoneV
        /\ check_action(reg, "mid", a) = ALLOWED

\* the active state and its ancestors
ActiveChain == Ancestors(Machine, get_active_state)

\* C4 as stated: UIStateMachine.check_action is true exactly when the
\* active state answers ALLOWED, and an action with no rule anywhere on the
\* active state's ancestor chain is never permitted.
C4_Original ==
    LET active == get_active_state
        chain == ActiveChain
    IN  \A a \in ActionNames :
            LET permitted == UI_check_action(a)
            IN  /\ permitted <=> check_action(Machine, active, a) = ALLOWED
                /\ (\A s \in chain : a \notin DOMAIN Machine[s].actions) =>
                      ~permitted

\* C4 amended: UIStateMachine.check_action is true exactly when the active
\* state answers ALLOWED; FORBIDDEN and UNHANDLED give false, and an action
\* with no rule on the ancestor chain of the active state is not permitted
\* unless it is a leader binding action asked while LeaderPendingState is
\* the active state.
C4_OnlyAllowedPermits ==
    LET active == get_active_state
        chain == ActiveChain
    IN  \A a \in ActionNames :
            LET permitted == UI_check_action(a)
                result == check_action(Machine, active, a)
            IN  /\ permitted <=> result = ALLOWED
                /\ result \in {FORBIDDEN, UNHANDLED} => ~permitted
                /\ ((\A s \in chain : a \notin DOMAIN Machine[s].actions)
                      /\ permitted) =>
                      /\ active = "leader_pending"
                      /\ a \in get_leader_binding_actions(keymap)

\* C4 witness: the active state answers UNHANDLED for one action, FORBIDDEN
\* for another and ALLOWED for a third
C4_Witness ==
    /\ get_active_state = "tree_on_connection"
    /\ check_action(Machine, get_active_state, "toggle_node") = UNHANDLED
    /\ \A s \in ActiveChain : "toggle_node" \notin DOMAIN Machine[s].actions
    /\ check_action(Machine, get_active_state, "connect_selected") = FORBIDDEN
    /\ check_action(Machine, get_active_state, "disconnect") = ALLOWED

\* the action names of the bindings get_display_bindings returns
Shown ==
    LET b == UI_get_display_bindings
    IN  { b.left[i].action : i \in DOMAIN b.left }
        \cup { b.right[i].action : i \in DOMAIN b.right }

\* C5 as stated: every binding of get_display_bindings names an action that
\* check_action permits in the same snapshot.
C5_Original == \A a \in Shown : UI_check_action(a)

\* C5 amended: every binding of get_display_bindings names an action that
\* check_action permits in the same snapshot, except two display-only
\* entries: the "leader_pending" indicator, shown only while
\* LeaderPendingState is active, and the "toggle_node" hint, shown only while
\* TreeOnTableState or TreeOnFolderState is active.
C5_DisplayedIsPermitted ==
    \A a \in Shown :
        \/ UI_check_action(a)
        \/ a = "leader_pending" /\ get_active_state = "leader_pending"
        \/ a = "toggle_node"
             /\ get_active_state \in {"tree_on_table", "tree_on_folder"}

\* C5 witness: the footer shows a guarded binding together with bindings
\* merged from the ancestors
C5_Witness ==
    /\ get_active_state = "tree_on_connection"
    /\ is_connected_to_this
    /\ "disconnect" \in Shown
    /\ "connect_selected" \notin Shown
    /\ "leader_key" \in Shown

\* C6: get_active_state returns the first state of the priority list whose
\* is_active holds; such a state always exists because the list ends with
\* main screen and root; the fallback after the loop is never reached.
C6_FirstMatchTotal ==
    /\ ~FallbackReached
    /\ \E i \in ActiveIndexes :
          /\ \A j \in ActiveIndexes : i <= j
          /\ get_active_state = States[i]
    /\ States[Len(States) - 1] = "main_screen"
    /\ States[Len(States)] = "root"
    /\ is_active(Machine["main_screen"].cls) \/ is_active(Machine["root"].cls)

\* C6 witness: a content state is active while more general states further
\* down the list are active too
C6_Witness ==
    /\ get_active_state = "query_normal"
    /\ Cardinality(ActiveIndexes) = 4

\* C7 as stated: exactly one state of the priority list satisfies is_active,
\* and it is the first match.
C7_Original ==
    /\ Cardinality(ActiveIndexes) = 1
    /\ \A i \in ActiveIndexes : get_active_state = States[i]

\* C7 amended: at least one state of the priority list satisfies is_active
\* (RootState always does, and several can at once), and the state
\* get_active_state selects is the first one of them in list order.
C7_AtLeastOneActive ==
    /\ Cardinality(ActiveIndexes) >= 1
    /\ Len(States) \in ActiveIndexes
    /\ \A i \in ActiveIndexes :
          get_active_state = States[i] <=> (\A j \in ActiveIndexes : i <= j)

\* C7 witness: five states are active at once and the selected one is the
\* first of them
C7_Witness ==
    /\ Cardinality(ActiveIndexes) = 5
    /\ get_active_state = "leader_pending"

\* the position of state s in the priority list
Position(s) == CHOOSE i \in 1..Len(States) : States[i] = s

\* C8: in the priority list every state comes before its parent, the modal
\* state comes before the leader-pending state and both come before every
\* content state; so with a modal open and the leader-pending flag set the
\* modal state is the active one.
C8_PriorityOrder ==
    /\ \A s \in StateIds :
          Machine[s].parent # NoneV => Position(s) < Position(Machine[s].parent)
    /\ Position("modal_active") < Position("leader_pending")
    /\ \A s \in StateIds \ {"modal_active", "leader_pending"} :
          Position("leader_pending") < Position(s)
    /\ (AnyModal /\ leader_pending) => get_active_state = "modal_active"

\* C8 witness: a modal screen is open while the leader-pending flag is set
C8_Witness ==
    /\ AnyModal
    /\ leader_pending
    /\ is_active(Machine["leader_pending"].cls)
    /\ get_active_state = "modal_active"

\* C9: with a modal screen on the stack, check_action permits quit and
\* nothing else, whatever the focus, the vim mode and the leader-pending
\* flag, and get_display_bindings returns two empty lists.
C9_ModalBlocks ==
    AnyModal =>
        /\ \A a \in ActionNames : UI_check_action(a) <=> a = "quit"
        /\ UI_get_display_bindings = [ left |-> << >>, right |-> << >> ]

\* C9 witness: a modal screen is open over a focused query editor with a
\* connection, and an action the root allows is refused
C9_Witness ==
    /\ AnyModal
    /\ focus = "query"
    /\ current_connection # NoneV
    /\ check_action(Machine, "root", "show_help") = ALLOWED
    /\ ~UI_check_action("show_help")
    /\ UI_check_action("quit")

\* the commands of the keymap whose guard name is not registered or whose
\* registered guard holds on the application
PassingCommands ==
    { i \in 1..Len(keymap) :
        \/ keymap[i].guard \notin {"has_connection", "query_executing"}
        \/ keymap[i].guard = "has_connection" /\ current_connection # NoneV
        \/ keymap[i].guard = "query_executing" /\ query_executing }

\* C10: while LeaderPendingState is the active state, check_action permits
\* leader_key and the binding actions leader_<action> of the commands of the
\* current registry whose guard is absent or passes, and nothing else; what
\* it does not permit is FORBIDDEN, not delegated.
C10_LeaderPendingPermits ==
    get_active_state = "leader_pending" =>
        \A a \in ActionNames :
            /\ UI_check_action(a) <=>
                  \/ a = "leader_key"
                  \/ \E i \in PassingCommands : a = "leader_" \o keymap[i].action
            /\ ~UI_check_action(a) =>
                  check_action(Machine, "leader_pending", a) = FORBIDDEN

\* C10 witness: leader pending is active, a guarded command is refused, an
\* unguarded one is permitted and an action the main screen allows is
\* FORBIDDEN
C10_Witness ==
    /\ get_active_state = "leader_pending"
    /\ current_connection = NoneV
    /\ \E i \in 1..Len(keymap) :
          keymap[i].action = "disconnect" /\ keymap[i].guard = "has_connection"
    /\ ~UI_check_action("leader_disconnect")
    /\ UI_check_action("leader_quit")
    /\ check_action(Machine, "main_screen", "focus_query") = ALLOWED
    /\ check_action(Machine, "leader_pending", "focus_query") = FORBIDDEN

\* the binding actions leader_<action> of the leader commands of every keymap
LeaderBindingActions == { "leader_" \o a : a \in LeaderActions }

\* C11: a leader binding action leader_<action> is permitted by
\* UIStateMachine.check_action only when LeaderPendingState is the active
\* state; under every other active state it is not permitted.
C11_LeaderActionsOnlyWhilePending ==
    LET active == get_active_state
    IN  \A a \in LeaderBindingActions :
            check_action(Machine, active, a) = ALLOWED =>
                active = "leader_pending"

\* C11 witness: a leader binding action is permitted while leader pending is
\* the active state, and the same action is refused by the main screen
C11_Witness ==
    /\ get_active_state = "leader_pending"
    /\ UI_check_action("leader_quit")
    /\ check_action(Machine, "main_screen", "leader_quit") # ALLOWED

\* the scheduled leader timers: set_timer was called and neither stop() nor
\* the callback has happened
LiveTimers == { i \in 1..Len(timers) : timers[i] = "live" }

\* the number of LeaderMenuScreen instances on a screen stack
MenuCount(stk) == Cardinality({ i \in 1..Len(stk) : stk[i] = "LeaderMenuScreen" })

\* the dispatcher is Pending and its timer has not fired yet
PendingBeforeTimeout ==
    /\ leader_pending
    /\ leader_timer # 0
    /\ timers[leader_timer] = "live"

\* the dispatcher is Idle after the step: flag false, reference cleared, no
\* timer scheduled
IdleAfter ==
    /\ leader_pending' = FALSE
    /\ leader_timer' = 0
    /\ LiveTimers' = {}

\* what the underlying action of leader command X leaves behind, run once
CommandDone(X) ==
    CASE X = "disconnect" -> current_connection' = NoneV
      [] X = "cancel_operation" -> query_executing' = FALSE
      [] X = "change_theme" -> screen_stack' = Append(screen_stack, "ThemeScreen")
      [] X = "show_help" -> screen_stack' = Append(screen_stack, "HelpScreen")
      [] X = "quit" -> exited'
      [] OTHER -> FALSE

\* a step that is the leader key handler action_leader_<X> for command X
LeaderStep(X) ==
    /\ Key("leader_" \o X)
    /\ execute_leader_command(X, screen_stack)

\* C12 as stated: whenever the dispatcher is Pending and the timer has not
\* fired, the key of every leader command whose guard passes is accepted.
C12_Original ==
    PendingBeforeTimeout =>
        \A i \in PassingCommands : UI_check_action("leader_" \o keymap[i].action)

\* C12 (amended): while the dispatcher is Pending, the timer has not fired
\* and no modal screen is open, the key of every leader command X whose guard
\* passes is accepted; the accepted key runs the underlying action of X once,
\* leaves the dispatcher Idle (flag false, timer stopped and dereferenced)
\* and pushes no leader menu.
C12_FastPath ==
    /\ [](PendingBeforeTimeout /\ ~AnyModal =>
            \A i \in PassingCommands :
                UI_check_action("leader_" \o keymap[i].action))
    /\ [][\A X \in LeaderActions :
            LeaderStep(X) =>
                /\ CommandDone(X)
                /\ IdleAfter
                /\ MenuCount(screen_stack') <= MenuCount(screen_stack)]_vars

\* C12 witness: the leader key was pressed from Idle, its timer is still
\* scheduled, and the key of a guarded command whose guard passes is accepted
C12_Witness ==
    /\ PendingBeforeTimeout
    /\ ~AnyModal
    /\ current_connection # NoneV
    /\ \E i \in PassingCommands :
          keymap[i].action = "disconnect" /\ keymap[i].guard = "has_connection"
    /\ UI_check_action("leader_disconnect")

\* a step in which the leader timer fires while the dispatcher is Pending
TimeoutStep == leader_pending /\ show_menu

\* C13 as stated: every timeout of a pending leader press pushes exactly one
\* LeaderMenuScreen and leaves the dispatcher not Pending.
C13_Original ==
    [][TimeoutStep =>
          /\ screen_stack' = Append(screen_stack, "LeaderMenuScreen")
          /\ ~leader_pending']_vars

\* C13 (amended): every timeout of a pending leader press leaves the
\* dispatcher not Pending; it pushes exactly one LeaderMenuScreen when no
\* modal screen is open and leaves the screen stack alone when one is open;
\* at no time is more than one LeaderMenuScreen on the stack.
C13_Timeout ==
    /\ [](MenuCount(screen_stack) <= 1)
    /\ [][TimeoutStep =>
            /\ ~leader_pending'
            /\ IF AnyModal
               THEN screen_stack' = screen_stack
               ELSE /\ screen_stack' = Append(screen_stack, "LeaderMenuScreen")
                    /\ MenuCount(screen_stack') = 1]_vars

\* C13 witness: the timer of the press has fired, the menu is the top screen
\* and the dispatcher is no longer Pending
C13_Witness ==
    /\ screen_stack # << >>
    /\ screen_stack[Len(screen_stack)] = "LeaderMenuScreen"
    /\ ~leader_pending
    /\ leader_timer # 0
    /\ timers[leader_timer] = "fired"

\* a step in which the callback of a timer runs that _cancel_leader_pending
\* had stopped
LateCallbackStep ==
    /\ show_menu
    /\ \E i \in 1..Len(timers) :
          /\ timers[i] = "cancelled"
          /\ timers' = Collect([ timers EXCEPT ![i] = "fired" ], leader_timer)

\* C14 as stated: a fast-path dispatch shows no menu, and the callback of a
\* timer that was stopped when its press was cancelled neither shows the menu
\* nor changes the dispatcher: the screen stack, _leader_pending and whether
\* _leader_timer is set stay as they are.
C14_Original ==
    [][/\ \A X \in LeaderActions :
             LeaderStep(X) => MenuCount(screen_stack') <= MenuCount(screen_stack)
       /\ LateCallbackStep =>
             /\ screen_stack' = screen_stack
             /\ leader_pending' = leader_pending
             /\ (leader_timer' = 0) = (leader_timer = 0)]_vars

\* the dispatcher state of the design: Pending while _leader_pending, Menu
\* while the leader menu is on the screen stack, Idle otherwise
DispatcherState(pending, stk) ==
    IF pending THEN "Pending"
    ELSE IF MenuCount(stk) > 0 THEN "Menu"
    ELSE "Idle"

\* a step of the running application that brings the dispatcher back to Idle
BackToIdle ==
    /\ ~exited'
    /\ DispatcherState(leader_pending, screen_stack) # "Idle"
    /\ DispatcherState(leader_pending', screen_stack') = "Idle"

C16_RepressKeepsOneTimer ==
    /\ [](Cardinality(LiveTimers) <= 1)
    /\ [][(leader_pending /\ action_leader_key) =>
            /\ leader_pending'
            /\ UNCHANGED appVars
            /\ LiveTimers' = {leader_timer'}]_vars

\* C16 witness: the leader key was pressed again while Pending; the timer of
\* the first press is stopped and the timer of the second is the only one
\* scheduled
C16_Witness ==
    /\ leader_pending
    /\ \E i \in 1..Len(timers) : timers[i] = "stopped"
    /\ LiveTimers = {leader_timer}

\* a step in which the leader menu, the top screen, is dismissed
MenuDismissStep ==
    /\ screen_stack # << >>
    /\ screen_stack[Len(screen_stack)] = "LeaderMenuScreen"
    /\ Dismiss

OccursIn(seq, a) == \E i \in 1..Len(seq) : seq[i] = a

\* number of positions of seq that hold a
CountIn(seq, a) == Cardinality({ i \in 1..Len(seq) : seq[i] = a })

\* number of display entries of bs, left and right, for the action a
EntriesFor(bs, a) ==
    Cardinality({ i \in 1..Len(bs.left) : bs.left[i].action = a })
    + Cardinality({ i \in 1..Len(bs.right) : bs.right[i].action = a })

\* the state s of the table T has a rule for a that carries a display pair
DisplaysAction(T, s, a) ==
    /\ a \in DOMAIN T[s].actions
    /\ HasDisplay(T[s].actions[a])

\* the entry e is in the list of bs that s's own ordering gives it (left
\* if s lists the action in _display_order, else right), and only entries
\* of s's own ordering list precede it
AtOwnPosition(T, s, bs, e) ==
    LET own == IF OccursIn(T[s].display_order, e.action)
               THEN T[s].display_order ELSE T[s].right_bindings
        lst == IF OccursIn(T[s].display_order, e.action)
               THEN bs.left ELSE bs.right
    IN  \E i \in 1..Len(lst) :
           /\ lst[i] = e
           /\ \A j \in 1..(i - 1) : OccursIn(own, lst[j].action)

\* what C18 promises of the state s, its proper ancestor t and the action a
ShadowedBy(T, s, a) ==
    LET bs == get_display_bindings(T, s)
        e  == get_display_binding(T[s].actions[a], a)
    IN  /\ EntriesFor(bs, a) = 1
        /\ AtOwnPosition(T, s, bs, e)

\* C18 as stated: when a state and one of its ancestors both register a
\* display binding for the same action, the state's display bindings hold
\* exactly one entry for the action, with the state's own key and label, at
\* the position the state's own ordering gives it, whatever the slots.
C18_Original ==
    \A s \in ChainStates, a \in ChainActions :
       \A t \in Ancestors(reg, s) \ {s} :
          (DisplaysAction(reg, s, a) /\ DisplaysAction(reg, t, a))
             => ShadowedBy(reg, s, a)

\* C18: when a state and one of its ancestors both register a display
\* binding for the same action and the guard of the state's own rule
\* passes, the state's display bindings hold exactly one entry for the
\* action, with the state's own key and label, at the position the state's
\* own ordering gives it, whatever the slots; the ancestor's entry is not
\* shown.
C18_ShadowWhenGuardPasses ==
    \A s \in ChainStates, a \in ChainActions :
       \A t \in Ancestors(reg, s) \ {s} :
          (/\ DisplaysAction(reg, s, a)
           /\ DisplaysAction(reg, t, a)
           /\ is_allowed(reg[s].actions[a].guard))
             => ShadowedBy(reg, s, a)

\* child and top both display connect_selected, with other labels and in
\* other slots, both guards pass and the child's entry is the one shown
C18_Witness ==
    /\ DisplaysAction(reg, "child", "connect_selected")
    /\ DisplaysAction(reg, "top", "connect_selected")
    /\ reg["child"].actions["connect_selected"].display_label = "Beta"
    /\ reg["top"].actions["connect_selected"].display_label = "Alpha"
    /\ reg["child"].right_bindings = << "connect_selected" >>
    /\ reg["top"].display_order = << "connect_selected" >>
    /\ is_allowed(reg["child"].actions["connect_selected"].guard)
    /\ is_allowed(reg["top"].actions["connect_selected"].guard)
    /\ get_display_bindings(reg, "child") =
          [ left |-> << >>,
            right |-> << DisplayBinding("b", "Beta", "connect_selected") >> ]

\* the displayed rules of s have unique action names: every name of the two
\* ordering lists occurs once in them, and its rule carries a display pair
UniqueDisplayed(T, s) ==
    LET both == T[s].display_order \o T[s].right_bindings
    IN  \A i \in 1..Len(both) :
           /\ CountIn(both, both[i]) = 1
           /\ DisplaysAction(T, s, both[i])

\* the bindings of the names of order whose guard passes, in the order of
\* the list
PassingOf(st, order) ==
    LET passing == SelectSeq(order,
                      LAMBDA a : is_allowed(st.actions[a].guard))
    IN  [ i \in 1..Len(passing) |->
             get_display_binding(st.actions[passing[i]], passing[i]) ]

\* the guard-passing displayed rules of s, slot by slot
OwnBindings(T, s) ==
    [ left |-> PassingOf(T[s], T[s].display_order),
      right |-> PassingOf(T[s], T[s].right_bindings) ]

\* the action names of the entries of bs
ActionsOf(bs) ==
    { bs.left[i].action : i \in 1..Len(bs.left) }
    \cup { bs.right[i].action : i \in 1..Len(bs.right) }

\* the entries of the parent's list that no entry of own shadows
Inherited(bindings, own) ==
    SelectSeq(bindings, LAMBDA b : b.action \notin ActionsOf(own))

\* C19 as stated: for a state whose displayed rules have unique action
\* names, the display bindings are exactly the guard-passing ones among
\* them, in registration order within each slot.
C19_Original ==
    \A s \in ChainStates :
       (UniqueDisplayed(reg, s) /\ reg[s].display_order \o reg[s].right_bindings # << >>)
          => get_display_bindings(reg, s) = OwnBindings(reg, s)

\* C19: for a state whose displayed rules have unique action names, each
\* slot of the display bindings starts with the guard-passing ones among
\* them, in registration order; a state without parent returns exactly
\* those, a state with a parent appends, slot by slot, the parent's entries
\* for the actions it does not show itself; no action has two entries.
C19_OwnThenInherited ==
    \A s \in ChainStates :
       UniqueDisplayed(reg, s) =>
          LET bs  == get_display_bindings(reg, s)
              own == OwnBindings(reg, s)
          IN  /\ \A a \in ActionsOf(bs) : EntriesFor(bs, a) = 1
              /\ IF reg[s].parent = NoneV
                 THEN bs = own
                 ELSE LET p == get_display_bindings(reg, reg[s].parent)
                      IN  /\ bs.left = own.left \o Inherited(p.left, own)
                          /\ bs.right = own.right \o Inherited(p.right, own)

\* child has two displayed rules in its left list, disconnect registered
\* first, both guards pass and both are shown in that order; top has a
\* displayed rule too
C19_Witness ==
    /\ reg["child"].display_order = << "disconnect", "connect_selected" >>
    /\ reg["child"].right_bindings = << >>
    /\ UniqueDisplayed(reg, "child")
    /\ reg["child"].actions["connect_selected"].guard = "can_connect"
    /\ can_connect
    /\ reg["top"].actions # << >>
    /\ DisplaysAction(reg, "top", "disconnect")
    /\ Len(get_display_bindings(reg, "child").left) = 2
    /\ get_display_bindings(reg, "child").left[1].action = "disconnect"
    /\ get_display_bindings(reg, "child").right = << >>

\* the step is the call s.allows(a, g, key=d.key, label=d.label, right=right)
RegistrationStep(s, a, g, d, right) ==
    /\ nregs' = nregs + 1
    /\ reg' = [ reg EXCEPT ![s] =
                  allows(@, a, g, d.key, d.label, right, NoneV, NoneV) ]

\* C20 as stated: registering an action name that the state already has a
\* rule for keeps the guard and the labels of the last registration and
\* leaves the action, when it has a display pair, in exactly one of the two
\* ordering lists, exactly once, at its first-registered position.
C20_Original ==
    [][ \A s \in DisplayStates, a \in ChainActions, g \in ChainGuards,
           d \in DisplayPairs, right \in BOOLEAN :
           (/\ a \in DOMAIN reg[s].actions
            /\ RegistrationStep(s, a, g, d, right))
           => /\ reg'[s].actions[a].guard = g
              /\ reg'[s].actions[a].display_key = d.key
              /\ reg'[s].actions[a].display_label = d.label
              /\ HasDisplay(reg'[s].actions[a]) =>
                    CountIn(reg'[s].display_order, a)
                    + CountIn(reg'[s].right_bindings, a) = 1
              /\ OccursIn(reg[s].display_order \o reg[s].right_bindings, a) =>
                    /\ reg'[s].display_order = reg[s].display_order
                    /\ reg'[s].right_bindings = reg[s].right_bindings
      ]_vars

\* ---------------------------------------------------------------------
\* Connect / Disconnect, navigation, quit
\* ---------------------------------------------------------------------

\* the Connect and the Disconnect entry of TreeOnConnectionState
ConnectEntry == DisplayBinding("enter", "Connect", "connect_selected")
DisconnectEntry == DisplayBinding("x", "Disconnect", "disconnect")

\* the entries of bs, left then right
AllEntries(bs) == bs.left \o bs.right

VimActions == { "vim_up", "vim_down", "vim_left", "vim_right" }

\* the tree states: TreeFocusedState and the states whose parent it is
TreeStates ==
    { s \in StateIds : s = "tree_focused" \/ Machine[s].parent = "tree_focused" }

\* C22 as stated: the four navigation actions are all permitted when
\* QueryNormalModeState is the active state and when TreeFocusedState is the
\* active state, and none of them is permitted when QueryInsertModeState is
\* the active state.
C22_Original ==
    LET active == get_active_state
    IN  /\ active \in {"query_normal", "tree_focused"} =>
              \A a \in VimActions : UI_check_action(a)
        /\ active = "query_insert" =>
              \A a \in VimActions : ~UI_check_action(a)

\* C22: the four navigation actions are all permitted when
\* QueryNormalModeState is the active state and none of them is permitted
\* when QueryInsertModeState is the active state; when TreeFocusedState or
\* one of its child states is the active state, vim_up and vim_down are
\* permitted and vim_left and vim_right are not.
C22_Navigation ==
    LET active == get_active_state
    IN  /\ active = "query_normal" =>
              \A a \in VimActions : UI_check_action(a)
        /\ active = "query_insert" =>
              \A a \in VimActions : ~UI_check_action(a)
        /\ active \in TreeStates =>
              /\ UI_check_action("vim_up") /\ UI_check_action("vim_down")
              /\ ~UI_check_action("vim_left") /\ ~UI_check_action("vim_right")

\* TreeFocusedState itself is the active state: up is permitted, left is not
C22_Witness ==
    /\ get_active_state = "tree_focused"
    /\ UI_check_action("vim_up")
    /\ ~UI_check_action("vim_left")

\* ---------------------------------------------------------------------
\* Guards: unknown names, purity, the keymap source
\* ---------------------------------------------------------------------

\* the definition names a guard that LEADER_GUARDS does not hold
UnknownGuard(cmd_def) ==
    cmd_def.guard # NoneV /\ cmd_def.guard \notin LEADER_GUARDS

\* C23 as stated: a leader command whose definition names a guard absent from
\* the guard registry is never built as an unguarded command: no command of
\* the list built from the current keymap has lost its named guard, and no
\* such command is permitted while the leader is pending.
C23_Original ==
    \A i \in 1..Len(keymap) :
       UnknownGuard(keymap[i]) =>
          /\ get_leader_commands(keymap)[i].guard # NoneV
          /\ ~(/\ get_active_state = "leader_pending"
               /\ UI_check_action(binding_action(get_leader_commands(keymap)[i])))

\* the state of the chain that decides the action a asked of s: the first
\* one, from s upwards, that forbids a or has a rule for it; NoneV if none
RECURSIVE Decider(_, _, _)
Decider(T, s, a) ==
    IF a \in T[s].forbidden \/ a \in DOMAIN T[s].actions THEN s
    ELSE IF T[s].parent # NoneV THEN Decider(T, T[s].parent, a)
    ELSE NoneV

\* authorizing a in s calls a guard that raises
GuardRaisesFor(T, s, a) ==
    LET d == Decider(T, s, a)
    IN  /\ d # NoneV
        /\ a \notin T[d].forbidden
        /\ GuardRaises(T[d].actions[a].guard)

\* C24 as stated: authorization never crashes, and when the guard called
\* while an action is authorized raises, check_action returns FORBIDDEN.
C24_Original ==
    \A s \in ChainStates, a \in ChainActions :
       /\ check_action(reg, s, a) \in {ALLOWED, FORBIDDEN, UNHANDLED}
       /\ GuardRaisesFor(reg, s, a) => check_action(reg, s, a) = FORBIDDEN

\* the step is one of the three queries
QueryStep == QueryActiveState \/ QueryCheckAction \/ QueryDisplayBindings

KeymapSwapWhilePending ==
    /\ keymap' # keymap
    /\ get_active_state = "leader_pending"
    /\ get_active_state' = "leader_pending"

\* C26: when the keymap's leader command list changes between two
\* authorization calls made while leader pending is active, the second call
\* permits exactly the binding actions of the commands of the new list whose
\* guard is absent or passes: a command that was removed is no longer
\* permitted and one that was added is not rejected.
C26_NeverCached ==
    [][ KeymapSwapWhilePending =>
          \A a \in LeaderBindingActions :
             (Leader_check_action(a)' = ALLOWED)
                <=> (\E i \in PassingCommands' : a = "leader_" \o keymap'[i].action)
      ]_vars

\* leader pending is active under the swapped keymap: the removed command
\* change_theme is refused and the commands of the new list are permitted
C26_Witness ==
    /\ get_active_state = "leader_pending"
    /\ keymap = AltKeymap
    /\ ~UI_check_action("leader_change_theme")
    /\ ~UI_check_action("leader_cancel_operation")
    /\ UI_check_action("leader_quit")
    /\ current_connection # NoneV
    /\ UI_check_action("leader_show_help")

\* ---------------------------------------------------------------------
\* Help text (SpecHelp)
\* ---------------------------------------------------------------------

\* the k-th smallest element of the set of numbers S
NthOf(S, k) == CHOOSE i \in S : Cardinality({ j \in S : j < i }) = k - 1

\* the entries of the list whose key no earlier entry of the list has
FirstPerKey(entries) ==
    LET first == { i \in 1..Len(entries) :
                     \A j \in 1..(i - 1) : entries[j].key # entries[i].key }
    IN  [ k \in 1..Cardinality(first) |-> entries[NthOf(first, k)] ]

\* what the help text is to show under the category c: for the commands
\* category one entry per leader command of the keymap, for any other the
\* entries of that category of all states of the list, in list order, the
\* first one per key
ExpectedEntries(T, order, km, c) ==
    IF c = CommandsCategory
    THEN [ i \in 1..Len(km) |->
             HelpEntry(km[i].key, km[i].label, CommandsCategory) ]
    ELSE FirstPerKey(SelectSeq(AllHelpEntries(T, order, 1),
                               LAMBDA e : e.category = c))

\* the lines of the help text are the categories of category_order that
\* have entries, in that order, each with its title, its expected entries
\* and an empty line after it, except after the last
HelpTextAsExpected(T, order, km) ==
    LET lines == generate_help_text(T, order, km)
        shown == SelectSeq(category_order,
                    LAMBDA c : ExpectedEntries(T, order, km, c) # << >>)
        titles == SelectSeq(lines, LAMBDA l : l.kind = "title")
        Start(k) == CHOOSE p \in 1..Len(lines) :
                       /\ lines[p].kind = "title"
                       /\ Cardinality({ q \in 1..p : lines[q].kind = "title" }) = k
    IN  /\ Len(titles) = Len(shown)
        /\ \A k \in 1..Len(shown) :
              LET expected == ExpectedEntries(T, order, km, shown[k])
                  p == Start(k)
                  n == Len(expected)
              IN  /\ titles[k].text = shown[k]
                  /\ p + n <= Len(lines)
                  /\ \A i \in 1..n :
                        /\ lines[p + i].kind = "entry"
                        /\ lines[p + i].key = format_key_for_help(expected[i].key)
                        /\ lines[p + i].text = expected[i].description
                  /\ IF k = Len(shown)
                     THEN Len(lines) = p + n
                     ELSE /\ lines[p + n + 1].kind = "empty"
                          /\ Start(k + 1) = p + n + 2

\* C27: generate_help_text collects the help entries of every state in
\* priority order, whichever state is active, keeps for each (category,
\* key) pair only the first entry met, puts one entry per leader command in
\* the commands category and emits the categories that have entries in the
\* fixed order; checked for the chain under every registration and for the
\* hierarchy of the application, whose text depends on the keymap only and
\* is therefore looked at before the first registration.
C27_HelpText ==
    /\ HelpTextAsExpected(reg, ChainOrder, keymap)
    /\ nregs = 0 => HelpTextAsExpected(Machine, States, keymap)

\* mid and top are both in the Explorer category and both have a rule with
\* the help key j: the text shows mid's entry only, then the commands, then
\* child's General entry with its key formatted
C27_Witness ==
    LET lines == generate_help_text(reg, ChainOrder, keymap)
    IN  /\ reg["mid"].help_category = "Explorer"
        /\ \E a \in DOMAIN reg["mid"].actions :
              /\ reg["mid"].actions[a].help_key = "j"
              /\ reg["mid"].actions[a].help_description = "Next row"
        /\ \E a \in DOMAIN reg["top"].actions :
              /\ reg["top"].actions[a].help_key = "j"
              /\ reg["top"].actions[a].help_description = "Move down"
        /\ Len(lines) > 4
        /\ lines[1] = [ kind |-> "title", key |-> NoneV, text |-> "Explorer" ]
        /\ lines[2] = [ kind |-> "entry", key |-> "j", text |-> "Next row" ]
        /\ lines[3].kind = "empty"
        /\ lines[4].text = CommandsCategory
        /\ lines[Len(lines)] =
              [ kind |-> "entry", key |-> "<enter>", text |-> "Connect" ]

PendingOn(id) ==
    /\ leader_pending
    /\ leader_timer # 0
    /\ timers[leader_timer] = "live"
    /\ leader_timer_id = id

\* C29 as stated: whenever _leader_pending is true a live leader timer
\* exists, and with that timer firing fairly every Pending state is
\* eventually left, whatever keys the user presses as long as they match no
\* allowed leader command.
C29_Original ==
    /\ [](leader_pending => \E id \in {0, 1} : PendingOn(id))
    /\ leader_pending ~> ~leader_pending

\* C29: whenever _leader_pending is true a live leader timer exists, and with
\* every scheduled timer firing fairly the dispatcher does not stay Pending
\* on one timer for ever: it leaves Pending (to Menu or Idle), or the leader
\* key is pressed again, which stops that timer and schedules a new one with
\* the dispatcher still Pending.
C29_PendingOnOneTimerEnds ==
    /\ [](leader_pending => \E id \in {0, 1} : PendingOn(id))
    /\ PendingOn(0) ~> ~PendingOn(0)
    /\ PendingOn(1) ~> ~PendingOn(1)

\* the leader key was pressed again while Pending: the dispatcher is Pending
\* on the timer that replaced the first one
C29_Witness == PendingOn(1)

\* C30 as stated: after any sequence of key presses, focus changes, timer
\* firings and asynchronous query completions, _leader_pending = true and
\* vim_mode = INSERT never hold together.
C30_Original == ~(leader_pending /\ vim_mode = INSERT)

\* the actions SSMSTUI.BINDINGS binds to a plain printable character key:
\* n, s, R, f, e, d, D, x, space, ?, q, r, i, z, v, y, Y, a, j, k, h, l
PrintableKeyActions ==
    { "new_connection", "select_table", "refresh_tree", "edit_connection",
      "delete_connection", "duplicate_connection", "disconnect",
      "leader_key", "show_help", "focus_explorer", "focus_query",
      "focus_results", "enter_insert_mode", "clear_query", "new_query",
      "collapse_tree", "view_cell", "copy_cell", "copy_row", "copy_results",
      "vim_down", "vim_up", "vim_left", "vim_right" }

\* C31 as stated: while QueryInsertModeState is the active state, check_action
\* permits no action bound to a plain printable character key (the letters,
\* '?', space and the keys of the leader commands).
C31_Original ==
    get_active_state = "query_insert" =>
        \A a \in PrintableKeyActions \cup get_leader_binding_actions(keymap) :
            ~UI_check_action(a)

\* is_active of the state registered under id s
ActiveId(s) == is_active(Machine[s].cls)

\* C32: in every snapshot every ancestor (parent chain up to the root) of the
\* state get_active_state returns is itself active; ModalActiveState.is_active
\* and MainScreenState.is_active are exact complements; at most one of the
\* three tree sub-states and at most one of the two query mode states is
\* active.
C32_AncestorsActive ==
    /\ \A s \in Ancestors(Machine, get_active_state) : ActiveId(s)
    /\ ActiveId("modal_active") = ~ActiveId("main_screen")
    /\ Cardinality({ s \in {"tree_on_connection", "tree_on_table",
                            "tree_on_folder"} : ActiveId(s) }) <= 1
    /\ Cardinality({ s \in {"query_normal", "query_insert"} : ActiveId(s) }) <= 1

\* the active state is three levels below the root: tree_on_table under
\* tree_focused under main_screen
C32_Witness ==
    /\ get_active_state = "tree_on_table"
    /\ Cardinality(Ancestors(Machine, get_active_state)) = 4

\* C33: in every reachable application state the query editor is writable
\* exactly when vim_mode is INSERT: query_input.read_only = false iff
\* vim_mode = INSERT.
C33_WritableIffInsert == (read_only = FALSE) <=> (vim_mode = INSERT)

\* a query worker has completed with the editor focused in INSERT mode: the
\* editor is writable
C33_Witness ==
    /\ query_worker = "done"
    /\ ~query_executing
    /\ vim_mode = INSERT
    /\ read_only = FALSE
    /\ focus = "query"

\* C34 as stated: vim_mode = INSERT implies query_input.has_focus once the
\* queued focus change has been handled by on_descendant_focus.
C34_Original == (vim_mode = INSERT /\ ~focus_event) => focus = "query"


\* ------------------------------------------------------------------------
\* Leader commands and their registry guards
\* ------------------------------------------------------------------------

\* LeaderCommand.is_allowed of every command with action X among cmds
CommandGuardHolds(cmds, X) ==
    \A cmd \in cmds : cmd.action = X => is_allowed(cmd.guard)

\* the commands of the registry
RegistryCommands ==
    { get_leader_commands(keymap)[i] : i \in 1..Len(keymap) }

\* _handle_leader_result(X): the open leader menu is dismissed with the
\* listed command X and _execute_leader_command(X) runs
MenuSelectStep(X) ==
    /\ ~exited
    /\ screen_stack # << >>
    /\ screen_stack[Len(screen_stack)] = "LeaderMenuScreen"
    /\ \E cmd \in menu_items : cmd.action = X
    /\ execute_leader_command(X, SubSeq(screen_stack, 1, Len(screen_stack) - 1))

\* C35: _execute_leader_command runs a command, on the fast path and on
\* the menu-selection path, only in a state where the command's registry
\* guard holds
C35_Original ==
    [][\A X \in LeaderActions :
          /\ LeaderStep(X) => CommandGuardHolds(RegistryCommands, X)
          /\ MenuSelectStep(X) => CommandGuardHolds(menu_items, X)]_vars

\* C35 on the fast path alone: a leader command's key, pressed while the
\* leader is pending, runs the command only if its guard holds
C35_FastPathGuarded ==
    [][\A X \in LeaderActions :
          LeaderStep(X) => CommandGuardHolds(RegistryCommands, X)]_vars


\* ------------------------------------------------------------------------
\* SpecConn: connecting, disconnecting and deleting connections
\* ------------------------------------------------------------------------

\* the connection fields of the app, read at the start of a handler
ConnFields ==
    [ connection |-> current_connection,
      config |-> current_config,
      adapter |-> current_adapter,
      tunnel |-> current_ssh_tunnel,
      running |-> tunnels_running ]

\* "if self.current_ssh_tunnel: stop(); self.current_ssh_tunnel = None"
StopTunnel(c) ==
    [ c EXCEPT !.running = IF c.tunnel # NoneV THEN @ - 1 ELSE @,
               !.tunnel = NoneV ]

\* _disconnect_silent
DisconnectSilent(c) ==
    StopTunnel([ c EXCEPT !.config = IF c.connection # NoneV THEN NoneV ELSE @,
                          !.adapter = IF c.connection # NoneV THEN NoneV ELSE @,
                          !.connection = NoneV ])

\* how a call of connect_to_server can go: pyodbc is missing for an mssql
\* config; create_ssh_tunnel raises; get_adapter or adapter.connect raises;
\* a statement after the three assignments raises; or nothing raises
ConnectOutcomes ==
    { "no_driver", "tunnel_failed", "connect_failed", "failed_after", "connected" }

\* the tunnel create_ssh_tunnel(config) has started, when config enables SSH
StartTunnel(c, ssh) ==
    [ c EXCEPT !.running = IF ssh THEN @ + 1 ELSE @,
               !.tunnel = IF ssh THEN "tunnel" ELSE NoneV ]

\* the three assignments after adapter.connect returned
SetConnection(c, config) ==
    [ c EXCEPT !.connection = config, !.config = config, !.adapter = config ]

\* connect_to_server(config): the fields it leaves behind
ConnectToServer(c, config, ssh, outcome) ==
    CASE outcome = "no_driver" -> c
      [] outcome = "tunnel_failed" -> StopTunnel(StopTunnel(c))
      [] outcome = "connect_failed" -> StopTunnel(StartTunnel(StopTunnel(c), ssh))
      [] outcome = "failed_after" ->
            StopTunnel(SetConnection(StartTunnel(StopTunnel(c), ssh), config))
      [] OTHER -> SetConnection(StartTunnel(StopTunnel(c), ssh), config)

\* what connect_to_server notifies last
ConnectNotification(outcome) ==
    CASE outcome = "no_driver" -> "pyodbc not installed"
      [] outcome = "connected" -> "Connected"
      [] OTHER -> "Connection failed"

\* the handler's connection fields are written back to the app
SetConnFields(c) ==
    /\ current_connection' = c.connection
    /\ current_config' = c.config
    /\ current_adapter' = c.adapter
    /\ current_ssh_tunnel' = c.tunnel
    /\ tunnels_running' = c.running

\* the nodes refresh_tree builds: one per configured connection, one for
\* the active connection if it is not among them, and its objects
ConnTreeNodes(conns, config) ==
    { ConnectionNode(n) : n \in conns \cup ({config} \ {NoneV}) }
    \cup IF config # NoneV
         THEN { [ kind |-> k, name |-> NoneV ] : k \in {"table", "folder"} }
         ELSE {}

\* refresh_tree in SpecConn: the tree is rebuilt and the cursor lands on
\* one of its nodes or on none
ConnRefreshTree ==
    cursor_node' \in ConnTreeNodes(connections', current_config') \cup {NoNode}

\* what the handlers of SpecConn leave alone
ConnFrame ==
    UNCHANGED << vim_mode, read_only, query_executing, query_worker,
                 last_result_error, keymap, driver_setup, exited, leaderVars,
                 regVars, late_callbacks, has_footer, workerVars >>

\* the body action_connect_selected and on_tree_node_selected share: on a
\* connection node other than the active one, _disconnect_silent() if
\* connected, then connect_to_server(config)
ConnectNode ==
    /\ ConnFrame
    /\ cursor_node.kind = "connection"
    /\ ~(current_config # NoneV /\ current_config = cursor_node.name)
    /\ UNCHANGED << screen_stack, focus, focus_event, connections, delete_config >>
    /\ \E outcome \in ConnectOutcomes, ssh \in BOOLEAN :
          /\ SetConnFields(
                ConnectToServer(
                    IF current_connection # NoneV
                    THEN DisconnectSilent(ConnFields) ELSE ConnFields,
                    cursor_node.name, ssh, outcome))
          /\ last_notified' = ConnectNotification(outcome)
          /\ IF outcome = "no_driver"
             THEN UNCHANGED << cursor_node, footer >>
             ELSE ConnRefreshTree /\ highlighted_footer(TRUE, footer)

\* action_connect_selected
conn_connect_selected ==
    /\ Key("connect_selected")
    /\ ConnectNode

\* on_tree_node_selected
conn_tree_node_selected ==
    /\ ~exited
    /\ focus = "tree"
    /\ ~AnyModal
    /\ ConnectNode

\* action_disconnect
conn_disconnect ==
    /\ ConnFrame
    /\ Key("disconnect")
    /\ UNCHANGED << screen_stack, focus, focus_event, connections, delete_config >>
    /\ IF current_connection # NoneV
       THEN /\ SetConnFields(DisconnectSilent(ConnFields))
            /\ last_notified' = "Disconnected"
            /\ ConnRefreshTree
            /\ highlighted_footer(TRUE, footer)
       ELSE UNCHANGED << current_connection, current_config, current_adapter,
                         current_ssh_tunnel, tunnels_running,
                         last_notified, cursor_node, footer >>

\* action_delete_connection that asks for confirmation whichever
\* connection the cursor is on
action_delete_connection_never_refuses ==
    /\ ConnFrame
    /\ Key("delete_connection")
    /\ cursor_node.kind = "connection"
    /\ UNCHANGED << current_connection, current_config, current_adapter,
                    current_ssh_tunnel, tunnels_running, cursor_node, focus,
                    focus_event, connections >>
    /\ screen_stack' = Append(screen_stack, "ConfirmScreen")
    /\ delete_config' = cursor_node.name
    /\ update_footer_bindings
    /\ UNCHANGED last_notified

\* action_delete_connection on a connection node: refused for the active
\* connection, otherwise the confirmation dialog is pushed with the
\* node's config bound in its callback
action_delete_connection ==
    /\ ConnFrame
    /\ Key("delete_connection")
    /\ cursor_node.kind = "connection"
    /\ UNCHANGED << current_connection, current_config, current_adapter,
                    current_ssh_tunnel, tunnels_running, cursor_node, focus,
                    focus_event, connections >>
    /\ IF current_config # NoneV /\ current_config = cursor_node.name
       THEN /\ last_notified' = "Disconnect first before deleting"
            /\ UNCHANGED << screen_stack, delete_config, footer >>
       ELSE /\ screen_stack' = Append(screen_stack, "ConfirmScreen")
            /\ delete_config' = cursor_node.name
            /\ update_footer_bindings
            /\ UNCHANGED last_notified

\* the confirmation dialog is dismissed with confirmed; its callback runs
\* _do_delete_connection(config) if confirmed
DismissConfirm ==
    /\ ConnFrame
    /\ ~exited
    /\ screen_stack # << >>
    /\ screen_stack[Len(screen_stack)] = "ConfirmScreen"
    /\ screen_stack' = SubSeq(screen_stack, 1, Len(screen_stack) - 1)
    /\ delete_config' = NoneV
    /\ UNCHANGED << current_connection, current_config, current_adapter,
                    current_ssh_tunnel, tunnels_running, focus, focus_event >>
    /\ \E confirmed \in BOOLEAN :
          IF confirmed
          THEN /\ connections' = connections \ {delete_config}
               /\ last_notified' = "Connection deleted"
               /\ ConnRefreshTree
          ELSE UNCHANGED << connections, last_notified, cursor_node >>
    /\ update_footer_bindings

\* the tree cursor is moved to another node
ConnCursorMove ==
    /\ ConnFrame
    /\ ~exited
    /\ focus = "tree"
    /\ ~AnyModal
    /\ cursor_node' \in ConnTreeNodes(connections, current_config) \ {cursor_node}
    /\ UNCHANGED << screen_stack, focus, focus_event, current_connection,
                    current_config >>
    /\ UNCHANGED connVars
    /\ update_footer_bindings

InitConn ==
    /\ screen_stack = << >>
    /\ focus = "tree"
    /\ cursor_node = FirstNode
    /\ vim_mode = NORMAL
    /\ read_only = TRUE
    /\ focus_event = FALSE
    /\ leader_pending = FALSE
    /\ leader_timer = 0
    /\ timers = << >>
    /\ leader_timer_id = 0
    /\ menu_items = {}
    /\ NoWorkers
    /\ NoConn
    /\ current_connection = NoneV
    /\ current_config = NoneV
    /\ query_executing = FALSE
    /\ query_worker = NoneV
    /\ last_result_error = FALSE
    /\ keymap = DefaultKeymap
    /\ driver_setup = FALSE
    /\ exited = FALSE
    /\ reg = Chain
    /\ nregs = 0
    /\ late_callbacks = FALSE
    /\ has_footer \in BOOLEAN
    /\ footer = NoFooter

NextConn ==
    \/ conn_connect_selected
    \/ conn_tree_node_selected
    \/ conn_disconnect
    \/ action_delete_connection
    \/ DismissConfirm
    \/ ConnCursorMove
    \/ MouseFocus

SpecConn == InitConn /\ [][NextConn]_vars

\* ------------------------------------------------------------------------
\* SpecWorker: the query workers and the handlers that start and cancel them
\* ------------------------------------------------------------------------

\* how many query workers a run starts
MaxWorkers == 3

\* the workers whose coroutine has not ended
InFlight == { w \in 1..Len(workers) : workers[w].st # "finished" }

\* Worker.cancel() that leaves the task running
CancelWorkers_no_effect(ws, which) == ws

\* Worker.cancel() on each worker of ws among the numbers in which: the
\* task of a worker that has not ended is cancelled, and resumes with
\* CancelledError at its next step
CancelWorkers(ws, which) ==
    [ w \in 1..Len(ws) |->
        IF w \in which /\ ws[w].st # "finished"
        THEN [ ws[w] EXCEPT !.cancel = TRUE ]
        ELSE ws[w] ]

\* the fields SpecWorker's handlers leave alone
WorkerFrame ==
    UNCHANGED << screen_stack, cursor_node, query_worker, keymap,
                 driver_setup, exited, leaderVars, regVars, late_callbacks,
                 has_footer, connections, delete_config, last_notified >>

\* _execute_query_common(keep_insert_mode) with a connection and a
\* non-empty query: _query_worker.cancel(), _start_query_spinner(), and
\* run_worker(..., exclusive=True), which cancels the workers of the group
\* and starts the new one
execute_query_common(keep_insert_mode) ==
    /\ current_connection # NoneV
    /\ current_adapter # NoneV
    /\ Len(workers) < MaxWorkers
    /\ workers' = Append(CancelWorkers(workers, 1..Len(workers)),
                         [ st |-> "pending", keep |-> keep_insert_mode,
                           cancel |-> FALSE ])
    /\ query_worker_no' = Len(workers) + 1
    /\ query_executing' = TRUE
    /\ UNCHANGED << cancellable_query, displayed, saved, user_cancelled >>
    /\ UNCHANGED << current_adapter, current_ssh_tunnel, tunnels_running >>
    /\ UNCHANGED << current_connection, current_config, vim_mode, read_only,
                    focus, focus_event, last_result_error, footer >>
    /\ WorkerFrame

\* the first step of worker w's task: a cancelled task ends without running
\* the coroutine; otherwise _run_query_async runs up to its await, or
\* reports "Not connected" and stops the spinner
run_query_async_starts(w) ==
    /\ w \in 1..Len(workers)
    /\ workers[w].st = "pending"
    /\ IF workers[w].cancel
       THEN /\ workers' = [ workers EXCEPT ![w] = [ @ EXCEPT !.st = "finished",
                                                             !.cancel = FALSE ] ]
            /\ UNCHANGED << cancellable_query, displayed, query_executing,
                            last_result_error >>
       ELSE IF current_adapter = NoneV \/ current_config = NoneV
       THEN /\ workers' = [ workers EXCEPT ![w].st = "finished" ]
            /\ displayed' = displayed \cup {w}
            /\ last_result_error' = TRUE
            /\ query_executing' = FALSE
            /\ UNCHANGED cancellable_query
       ELSE /\ workers' = [ workers EXCEPT ![w].st = "awaiting" ]
            /\ cancellable_query' = w
            /\ UNCHANGED << displayed, query_executing, last_result_error >>
    /\ UNCHANGED << query_worker_no, saved, user_cancelled >>
    /\ UNCHANGED << current_adapter, current_ssh_tunnel, tunnels_running >>
    /\ UNCHANGED << current_connection, current_config, vim_mode, read_only,
                    focus, focus_event, footer >>
    /\ WorkerFrame

\* worker w's task resumes at the await with CancelledError, which neither
\* except clause catches: only the finally block runs
run_query_async_cancelled(w) ==
    /\ w \in 1..Len(workers)
    /\ workers[w].st = "awaiting"
    /\ workers[w].cancel
    /\ workers' = [ workers EXCEPT ![w] = [ @ EXCEPT !.st = "finished",
                                                      !.cancel = FALSE ] ]
    /\ cancellable_query' = 0
    /\ query_executing' = FALSE
    /\ UNCHANGED << query_worker_no, displayed, saved, user_cancelled >>
    /\ UNCHANGED << current_adapter, current_ssh_tunnel, tunnels_running >>
    /\ UNCHANGED << current_connection, current_config, vim_mode, read_only,
                    focus, focus_event, last_result_error, footer >>
    /\ WorkerFrame

\* worker w's task resumes at the await with the thread's outcome: rows or
\* an affected-row count are saved to history and displayed (and INSERT mode
\* is restored for keep_insert_mode), an error is displayed; the finally
\* block clears _cancellable_query and stops the spinner
run_query_async_resumes(w) ==
    /\ w \in 1..Len(workers)
    /\ workers[w].st = "awaiting"
    /\ ~workers[w].cancel
    /\ workers' = [ workers EXCEPT ![w].st = "finished" ]
    /\ \E outcome \in {"result", "error"} :
          /\ displayed' = displayed \cup {w}
          /\ saved' = IF outcome = "result" THEN saved \cup {w} ELSE saved
          /\ last_result_error' = (outcome = "error")
          /\ IF outcome = "result" /\ workers[w].keep
             THEN /\ vim_mode' = INSERT
                  /\ read_only' = FALSE
                  /\ FocusOn("query")
                  /\ update_footer_bindings
             ELSE UNCHANGED << vim_mode, read_only, focus, focus_event, footer >>
    /\ cancellable_query' = 0
    /\ query_executing' = FALSE
    /\ UNCHANGED << query_worker_no, user_cancelled >>
    /\ UNCHANGED << current_connection, current_config, current_adapter,
                    current_ssh_tunnel, tunnels_running >>
    /\ WorkerFrame

\* action_cancel_query and action_cancel_operation (with no schema indexing
\* under way), which share their body: while
\* _query_executing, _cancellable_query.cancel(), _query_worker.cancel(),
\* _query_worker = None, _stop_query_spinner(), "Query cancelled" in the
\* table; otherwise a notification only
cancel_running_query ==
    /\ IF query_executing
       THEN /\ user_cancelled' = user_cancelled
                                  \cup (({cancellable_query, query_worker_no} \ {0})
                                        \cap InFlight)
            /\ workers' = CancelWorkers(workers, {query_worker_no})
            /\ query_worker_no' = 0
            /\ query_executing' = FALSE
       ELSE UNCHANGED << user_cancelled, workers, query_worker_no, query_executing >>
    /\ UNCHANGED << cancellable_query, displayed, saved >>
    /\ UNCHANGED << current_adapter, current_ssh_tunnel, tunnels_running >>
    /\ UNCHANGED << current_connection, current_config, vim_mode, read_only,
                    focus, focus_event, last_result_error, footer >>
    /\ WorkerFrame

\* _disconnect_silent while connected
disconnect_silent ==
    /\ current_connection # NoneV
    /\ SetConnFields(DisconnectSilent(ConnFields))
    /\ UNCHANGED workerVars
    /\ UNCHANGED << query_executing, vim_mode, read_only, focus, focus_event,
                    last_result_error, footer >>
    /\ WorkerFrame

InitWorker ==
    /\ screen_stack = << >>
    /\ focus = "query"
    /\ cursor_node = FirstNode
    /\ vim_mode \in {NORMAL, INSERT}
    /\ read_only = (vim_mode = NORMAL)
    /\ focus_event = FALSE
    /\ leader_pending = FALSE
    /\ leader_timer = 0
    /\ timers = << >>
    /\ leader_timer_id = 0
    /\ menu_items = {}
    /\ NoWorkers
    /\ current_adapter = "Prod"
    /\ current_ssh_tunnel = NoneV
    /\ tunnels_running = 0
    /\ connections = ConnNames
    /\ delete_config = NoneV
    /\ last_notified = "Connected"
    /\ current_connection = "Prod"
    /\ current_config = "Prod"
    /\ query_executing = FALSE
    /\ query_worker = NoneV
    /\ last_result_error = FALSE
    /\ keymap = DefaultKeymap
    /\ driver_setup = FALSE
    /\ exited = FALSE
    /\ reg = Chain
    /\ nregs = 0
    /\ late_callbacks = FALSE
    /\ has_footer = FALSE
    /\ footer = NoFooter

NextWorker ==
    \/ \E keep_insert_mode \in BOOLEAN : execute_query_common(keep_insert_mode)
    \/ \E w \in 1..Len(workers) : run_query_async_starts(w)
    \/ \E w \in 1..Len(workers) : run_query_async_resumes(w)
    \/ \E w \in 1..Len(workers) : run_query_async_cancelled(w)
    \/ cancel_running_query
    \/ disconnect_silent

SpecWorker == InitWorker /\ [][NextWorker]_vars

\* C36: a query worker that is in flight and was not cancelled finds
\* _query_executing true, and _cancellable_query, once the worker has set
\* it, refers to that worker's query
C36_Original ==
    \A w \in InFlight :
        ~workers[w].cancel
            => /\ query_executing
               /\ workers[w].st = "awaiting" => cancellable_query = w

ConnFieldsAgree ==
    \/ current_connection = NoneV /\ current_config = NoneV /\ current_adapter = NoneV
    \/ current_connection # NoneV /\ current_config # NoneV /\ current_adapter # NoneV

\* C38: the three connection fields are all set or all unset, and once
\* connect_to_server has reported "Connection failed" all three are unset
\* and no SSH tunnel is running
C38_Original ==
    /\ ConnFieldsAgree
    /\ last_notified = "Connection failed"
          => /\ current_connection = NoneV
             /\ current_config = NoneV
             /\ current_adapter = NoneV
             /\ tunnels_running = 0

\* C38 without its claim about the failure branch: the three fields agree,
\* the running tunnels are exactly the one the app refers to, and after
\* "Connection failed" no tunnel is running
C38_FieldsAgree ==
    /\ ConnFieldsAgree
    /\ tunnels_running = IF current_ssh_tunnel # NoneV THEN 1 ELSE 0
    /\ last_notified = "Connection failed" => tunnels_running = 0

\* C39: the config of the active connection is among app.connections, and
\* the config an open confirmation dialog is about to delete is not the
\* active one
C39_ActiveNeverDeleted ==
    /\ current_config # NoneV => current_config \in connections
    /\ (screen_stack # << >> /\ screen_stack[Len(screen_stack)] = "ConfirmScreen")
          => ~(current_config # NoneV /\ current_config = delete_config)

\* a connection was deleted through the dialog while another one is active
C39_Witness ==
    /\ last_notified = "Connection deleted"
    /\ connections # ConnNames
    /\ current_config # NoneV

====
